---- MODULE Spec2Model ----
(***************************************************************************)
(* Verification model of the ranking history store, the ranking summary    *)
(* statistics and the mock ranking generators of amore_ai_agent.           *)
(*                                                                         *)
(* Dates are day numbers 1..MaxDate and date.today() is Today.  A row of   *)
(* ranking_history is a record (ranking_date, category, product_name,      *)
(* rank, is_laneige); the pass-through columns product_id, brand, price    *)
(* and the surrogate id / created_at columns are left out.  The table is a *)
(* bag of rows: SQL gives no order to rows beyond ORDER BY, so every       *)
(* query result that depends on an unspecified order is a choice.          *)
(* Strings that the code converts (category ids, catalogue labels) are     *)
(* sequences of one-character strings.                                     *)
(*                                                                         *)
(* Spec         the store and its queries, one call at a time              *)
(* SpecConc     two callers stepping through save_daily_rankings on the    *)
(*              shared session                                             *)
(* SpecMock     the table generators of the mock provider and engine       *)
(* SpecProvider the mock provider's cache and product history              *)
(* SpecLive     the live provider: page requests, parsing, its cache       *)
(* SpecStats    the trend, summary and weekly chart statistics applied to  *)
(*              drawn rank histories                                       *)
(* SpecLiveCache the live provider's get_rankings for varying windows     *)
(* SpecService  the ranking service collecting today's rankings from the   *)
(*              live provider, and the summary tool                        *)
(* SpecInsight  the insight analyzer on the outcomes of the model call     *)
(***************************************************************************)
EXTENDS Integers, Sequences, FiniteSets, Bags, TLC

\* ------------------------------------------------------------------ bounds
MaxDate == 3
MaxStoredPairs == 2

Today == MaxDate
Dates == 1..MaxDate

\* ---------------------------------------------------------------- strings
lip_care == <<"l","i","p","_","c","a","r","e">>
skincare == <<"s","k","i","n","c","a","r","e">>
lip_makeup == <<"l","i","p","_","m","a","k","e","u","p">>
face_powder == <<"f","a","c","e","_","p","o","w","d","e","r">>
makeup == <<"m","a","k","e","u","p">>

\* categories that the modelled callers store rows under
StoreCategories == {lip_care, skincare}
\* categories that the modelled callers ask for (makeup has no rows anywhere)
QueryCategories == StoreCategories \cup {makeup}

\* "category: str | None = None" of the range queries
NoCategory == <<>>

\* product names of stored rows; "Unknown" is the live source's default title
RowNames == {"Lip Sleeping Mask", "Unknown"}
QueryNames == RowNames \cup {"Nonexistent"}

\* ------------------------------------------------------------- save input
\* One row of rankings_df.
DfRow(name, rank, is_laneige) == [product_name |-> name, rank |-> rank, is_laneige |-> is_laneige]

\* "laneige" in text.lower(), over the brands and titles of the modelled items
ContainsLaneige(text) == text \in {"LANEIGE", "Laneige", "laneige"}

\* item.get(key, {}) ... .get("DisplayValue", "Unknown"): an absent value is <<>>
DisplayValue(field) == IF field = <<>> THEN "Unknown" ELSE field[1]

\* an item whose ItemInfo is null: item.get("ItemInfo", {}) gives None and
\* item_info.get raises inside the try, the item is skipped
ParseRaises(item) == "ItemInfo" \in DOMAIN item

\* mutant: the items after one that raised are dropped with it
parse_items_to_rankings_stop_at_error(items, start_rank) ==
  LET firstbad == {i \in 1..Len(items) : ParseRaises(items[i])}
      n == IF firstbad = {} THEN Len(items)
           ELSE (CHOOSE i \in firstbad : \A j \in firstbad : i <= j) - 1
  IN [i \in 1..n |->
        DfRow(DisplayValue(items[i].Title), start_rank + (i - 1),
              ContainsLaneige(DisplayValue(items[i].Brand))
                \/ ContainsLaneige(DisplayValue(items[i].Title)))]

\* _parse_items_to_rankings: one row per item that parses, rank =
\* start_rank + i for the item at index i of the batch.  The price (0 for an
\* item without a listing) is not among the columns the model carries.
parse_items_to_rankings(items, start_rank) ==
  LET parsed == SelectSeq([i \in 1..Len(items) |-> i], LAMBDA i : ~ParseRaises(items[i]))
  IN [k \in 1..Len(parsed) |->
        LET i == parsed[k]
            product_name == DisplayValue(items[i].Title)
            brand == DisplayValue(items[i].Brand)
        IN DfRow(product_name, start_rank + (i - 1),
                 ContainsLaneige(brand) \/ ContainsLaneige(product_name))]

\* items of a SearchItems response: the focus product and an item that
\* comes without ItemInfo.Title and ByLineInfo
ItemLaneige == [ASIN |-> "B00LSM", Title |-> <<"Lip Sleeping Mask">>, Brand |-> <<"LANEIGE">>]
ItemUntitled(asin) == [ASIN |-> asin, Title |-> <<>>, Brand |-> <<>>]

\* the non-empty batches get_today_rankings parses (an empty batch skips the category)
ItemBatches ==
  { <<ItemLaneige>>,
    <<ItemLaneige, ItemUntitled("B00AAA")>>,
    <<ItemUntitled("B00AAA"), ItemLaneige>>,
    <<ItemUntitled("B00AAA"), ItemUntitled("B00BBB")>> }

\* The DataFrames handed to save_daily_rankings.  Every caller passes at
\* least one row (collect_today_rankings and generate_demo_history skip an
\* empty frame) with ranks dense in 1..n; the mock rows of a day are the
\* same rows in catalogue order.
RowSets == {parse_items_to_rankings(items, 1) : items \in ItemBatches}

\* ------------------------------------------------------------------ state
VARIABLES
  table,      \* ranking_history: bag of RankingHistory rows
  latest,     \* history: the rankings_df of the most recent save per (date, category)
  res,        \* the call in progress / its result, [op |-> "idle"] between calls
  session,    \* session.new: bag of the records added and not yet flushed
  thread,     \* per caller of the shared repository: its position in save_daily_rankings
  ranking_cache,    \* the provider's ranking_cache: cache key -> DataFrame
  generated_days    \* MockRankingProvider._generated_days

vars == <<table, latest, res, session, thread, ranking_cache, generated_days>>

\* the state of the mock provider
mockVars == <<ranking_cache, generated_days>>

\* the state of the callers that share the repository's session
concVars == <<session, thread>>

\* the callers of the module-level ranking_service
Threads == {"t1", "t2"}
IdleThread == [pc |-> "idle"]

Pairs == Dates \X StoreCategories

Idle == [op |-> "idle"]

\* RankingHistory(ranking_date=..., category=..., product_name=row[...], ...)
RankingHistory(ranking_date, category, row) ==
  [ranking_date |-> ranking_date, category |-> category,
   product_name |-> row.product_name, rank |-> row.rank, is_laneige |-> row.is_laneige]

\* bag of the elements of a sequence
RECURSIVE BagOfSeq(_)
BagOfSeq(s) == IF s = <<>> THEN EmptyBag ELSE SetToBag({Head(s)}) (+) BagOfSeq(Tail(s))

\* query.filter(pred) as a bag
FilterBag(b, Pred(_)) == [r \in {x \in DOMAIN b : Pred(x)} |-> b[r]]

\* mutant: the delete before the insert is skipped
DeleteWhere_skipped(t, ranking_date, category) == t

\* mutant: only one of the matching rows is deleted
DeleteWhere_one_row(t, ranking_date, category) ==
  LET hit == {r \in DOMAIN t : r.ranking_date = ranking_date /\ r.category = category}
  IN IF hit = {} THEN t ELSE t (-) SetToBag({CHOOSE r \in hit : TRUE})

\* mutant: the delete takes the rows of the date in every category
DeleteWhere_whole_date(t, ranking_date, category) ==
  FilterBag(t, LAMBDA r : r.ranking_date # ranking_date)

\* session.query(RankingHistory).filter(ranking_date == d, category == c).delete()
DeleteWhere(t, ranking_date, category) ==
  FilterBag(t, LAMBDA r : ~(r.ranking_date = ranking_date /\ r.category = category))

\* the loop of session.add(record) followed by commit
InsertRows(t, ranking_date, category, rankings_df) ==
  t (+) BagOfSeq([i \in 1..Len(rankings_df) |-> RankingHistory(ranking_date, category, rankings_df[i])])

\* save_daily_rankings: the table after the call
SaveTable(t, ranking_date, category, rankings_df) ==
  InsertRows(DeleteWhere(t, ranking_date, category), ranking_date, category, rankings_df)

\* rows of the table stored for one (date, category)
StoredFor(t, ranking_date, category) ==
  FilterBag(t, LAMBDA r : r.ranking_date = ranking_date /\ r.category = category)

StoredPairs(t) == {<<r.ranking_date, r.category>> : r \in DOMAIN t}

\* ---------------------------------------------------------------- queries
\* mutant: the category filter is not applied
get_rankings_range_any_category(t, start_date, end_date, category) ==
  FilterBag(t, LAMBDA r : r.ranking_date >= start_date /\ r.ranking_date <= end_date)

\* filter(ranking_date >= start_date, ranking_date <= end_date) and, when a
\* category is given ("if category:"), filter(category == category)
get_rankings_range(t, start_date, end_date, category) ==
  FilterBag(t, LAMBDA r : /\ r.ranking_date >= start_date
                          /\ r.ranking_date <= end_date
                          /\ (category # NoCategory => r.category = category))

\* pd.DataFrame(): no rows, no columns
EmptyDataFrame == [day_cols |-> {}, rows |-> <<>>]

\* len(df) / df.empty
DfLen(df) == Cardinality(DOMAIN df.rows)

SetMax(S) == CHOOSE x \in S : \A y \in S : y <= x
Max2(a, b) == IF a >= b THEN a ELSE b
Min2(a, b) == IF a <= b THEN a ELSE b
SetMin(S) == CHOOSE x \in S : \A y \in S : x <= y

\* mutant: the day number is the calendar offset from the oldest date present
date_to_day_calendar_offset(records, d) ==
  d - SetMin({r.ranking_date : r \in DOMAIN records}) + 1

\* date_to_day = {d: i + 1 for i, d in enumerate(sorted(distinct dates))}
date_to_day(records, d) == 1 + Cardinality({r.ranking_date : r \in DOMAIN records} \cap 1..(d - 1))

\* get_category_rankings_as_df.  The DataFrame is a function from
\* product_name (the key of product_data) to the row; a row holds the
\* day_N cells that were written, a missing key is a NaN cell.  The records
\* come ordered by (date, category, rank), so of several records of one
\* product on one date the one with the greatest rank is written last.
get_category_rankings_as_df(t, category, days) ==
  LET end_date == Today
      start_date == end_date - (days - 1)
      records == get_rankings_range(t, start_date, end_date, category)
      names == {r.product_name : r \in DOMAIN records}
      recs(name) == {r \in DOMAIN records : r.product_name = name}
      first(name) == CHOOSE r \in recs(name) :
                       \A q \in recs(name) :
                          \/ r.ranking_date < q.ranking_date
                          \/ (r.ranking_date = q.ranking_date /\ r.rank <= q.rank)
      cells(name) == [n \in {date_to_day(records, r.ranking_date) : r \in recs(name)} |->
                        SetMax({r.rank : r \in {q \in recs(name) :
                                                  date_to_day(records, q.ranking_date) = n}})]
  IN IF records = EmptyBag
       THEN EmptyDataFrame
       ELSE [day_cols |-> {date_to_day(records, r.ranking_date) : r \in DOMAIN records},
             rows |-> [name \in names |->
                         [product_name |-> name, is_laneige |-> first(name).is_laneige,
                          day |-> cells(name)]]]

\* the orders in which ORDER BY ranking_date may return a bag of records
RECURSIVE OrderByDate(_)
OrderByDate(b) ==
  IF b = EmptyBag THEN {<<>>}
  ELSE LET dmin == SetMin({r.ranking_date : r \in DOMAIN b})
       IN UNION {{<<r>> \o s : s \in OrderByDate(b (-) SetToBag({r}))} :
                   r \in {x \in DOMAIN b : x.ranking_date = dmin}}

RECURSIVE SeqSum(_)
SeqSum(s) == IF s = <<>> THEN 0 ELSE Head(s) + SeqSum(Tail(s))

SeqRange(s) == {s[i] : i \in 1..Len(s)}

\* mutant: the mean cut to one decimal instead of rounded
Round1_truncated(num, den) == (10 * num) \div den

\* round(num / den, 1) in tenths; Python rounds a tie to the even digit
\* (the ties k/4 that short sequences produce are exact binary fractions)
Round1(num, den) ==
  LET n == 10 * num
      q == n \div den
      r == n % den
  IN IF 2 * r < den THEN q
     ELSE IF 2 * r > den THEN q + 1
     ELSE IF q % 2 = 0 THEN q ELSE q + 1

\* a Python exception leaving the call
Raise(exc) == [kind |-> "raise", exc |-> exc]
None == [kind |-> "None"]

Count(s, P(_)) == Cardinality({i \in 1..Len(s) : P(s[i])})

\* mutant: a tie of the first and last rank counts as rising
history_trend_with_ties(ranks) ==
  IF ranks[Len(ranks)] <= ranks[1] THEN "rising" ELSE "declining"

\* mutant: a history of fewer than 7 ranks gets a marker of its own
history_trend_min_length(ranks) ==
  IF Len(ranks) < 7 THEN "insufficient data"
  ELSE IF ranks[Len(ranks)] < ranks[1] THEN "rising" ELSE "declining"

\* "rising" if ranks[-1] < ranks[0] else "declining"
history_trend(ranks) ==
  IF ranks[Len(ranks)] < ranks[1] THEN "rising" ELSE "declining"

\* get_product_history on one ordering of the matching records
product_history_of(product_name, records) ==
  LET ranks == [i \in 1..Len(records) |-> records[i].rank] IN
  IF records = <<>> THEN None
  ELSE [kind |-> "dict",
        product_name |-> product_name,
        category |-> records[1].category,
        is_laneige |-> records[1].is_laneige,
        rankings |-> ranks,
        dates |-> [i \in 1..Len(records) |-> records[i].ranking_date],
        avg_rank |-> Round1(SeqSum(ranks), Len(ranks)),
        best_rank |-> SetMin(SeqRange(ranks)),
        worst_rank |-> SetMax(SeqRange(ranks)),
        trend |-> history_trend(ranks)]

\* get_product_history: the results the call can return
get_product_history(t, product_name, days) ==
  LET end_date == Today
      start_date == end_date - (days - 1)
      matching == FilterBag(t, LAMBDA r : /\ r.product_name = product_name
                                          /\ r.ranking_date >= start_date
                                          /\ r.ranking_date <= end_date)
  IN {product_history_of(product_name, records) : records \in OrderByDate(matching)}

\* ascending enumeration of a set of integers
RECURSIVE SortedSeq(_)
SortedSeq(S) == IF S = {} THEN <<>> ELSE <<SetMin(S)>> \o SortedSeq(S \ {SetMin(S)})

\* mutant: the two day counters with their thresholds exchanged
summary_of_counters_exchanged(ranks) ==
  [avg_rank |-> Round1(SeqSum(ranks), Len(ranks)),
   best_rank |-> SetMin(SeqRange(ranks)),
   worst_rank |-> SetMax(SeqRange(ranks)),
   current_rank |-> ranks[Len(ranks)],
   trend |-> IF Len(ranks) > 1 /\ ranks[Len(ranks)] < ranks[1] THEN "rising" ELSE "declining",
   top5_days |-> Count(ranks, LAMBDA r : r <= 10),
   top10_days |-> Count(ranks, LAMBDA r : r <= 5)]

\* the statistics of one LANEIGE row of get_laneige_summary
summary_of(ranks) ==
  [avg_rank |-> Round1(SeqSum(ranks), Len(ranks)),
   best_rank |-> SetMin(SeqRange(ranks)),
   worst_rank |-> SetMax(SeqRange(ranks)),
   current_rank |-> ranks[Len(ranks)],
   trend |-> IF Len(ranks) > 1 /\ ranks[Len(ranks)] < ranks[1] THEN "rising" ELSE "declining",
   top5_days |-> Count(ranks, LAMBDA r : r <= 5),
   top10_days |-> Count(ranks, LAMBDA r : r <= 10)]

\* ranks = [row[col] for col in day_cols if pd.notna(row.get(col))]
RowRanks(df, row) ==
  LET cols == SortedSeq(df.day_cols \cap DOMAIN row.day)
  IN [i \in 1..Len(cols) |-> row.day[cols[i]]]

\* get_laneige_summary: product_name -> statistics
get_laneige_summary(t, category, days) ==
  LET df == get_category_rankings_as_df(t, category, days)
      laneige == {n \in DOMAIN df.rows : df.rows[n].is_laneige}
      kept == {n \in laneige : RowRanks(df, df.rows[n]) # <<>>}
  IN IF DfLen(df) = 0 THEN <<>>
     ELSE IF laneige = {} THEN <<>>
     ELSE [n \in kept |-> summary_of(RowRanks(df, df.rows[n]))]

\* ------------------------------------------------------------ agent tools
\* days: int = 30 of the tools and the fixed window of the analysis tools
DefaultDays == 30

\* the text a tool returns, by its kind
Text(kind) == [kind |-> "str", text |-> kind]

\* int(row["current_rank"]) raises ValueError on a NaN cell
HasNaNCurrent(df) ==
  \E n \in DOMAIN df.rows : SetMax(df.day_cols) \notin DOMAIN df.rows[n].day

\* ranking_tools.get_product_history
tool_get_product_history(history) ==
  IF history.kind = "None" THEN Text("not_found") ELSE Text("history_report")

\* ranking_tools.get_category_rankings (at most ten rows are stored per category)
tool_get_category_rankings(df) ==
  IF DfLen(df) = 0 THEN Text("not_found")
  ELSE IF HasNaNCurrent(df) THEN Raise("ValueError")
  ELSE Text("category_report")

\* analysis_tools.compare_competitors (at most five competitor rows are stored)
tool_compare_competitors(df) ==
  IF DfLen(df) = 0 THEN Text("not_found")
  ELSE IF HasNaNCurrent(df) THEN Raise("ValueError")
  ELSE Text("competitor_report")

\* the trend line of analyze_trend for a history of at least 7 ranks.
\* recent_avg = sum(rankings[-7:]) / 7; older_avg = sum(rankings[:7]) / 7
\* from 14 ranks on, else sum(rankings[:-7]) / max(1, len(rankings) - 7);
\* change = older_avg - recent_avg is compared as an exact fraction:
\* 7 * older_den * change = 7 * older_sum - older_den * recent_sum.
\* The labels stand for the four lines of the report: strong rise
\* (change > 2), slight rise (change > 0), flat (change > -2), decline.
analyze_trend_direction(rankings) ==
  LET n == Len(rankings)
      recent_sum == SeqSum(SubSeq(rankings, n - 6, n))
      older_sum == IF n >= 14 THEN SeqSum(SubSeq(rankings, 1, 7))
                   ELSE SeqSum(SubSeq(rankings, 1, n - 7))
      older_den == IF n >= 14 THEN 7 ELSE Max2(1, n - 7)
      scaled == 7 * older_sum - older_den * recent_sum
  IN IF scaled > 2 * 7 * older_den THEN "rising_strong"
     ELSE IF scaled > 0 THEN "rising_slight"
     ELSE IF scaled > (0 - 2) * 7 * older_den THEN "flat"
     ELSE "declining"

\* analysis_tools.analyze_trend, product branch
tool_analyze_trend_product(history) ==
  IF history.kind = "None" THEN Text("not_found")
  ELSE IF Len(history.rankings) < 7 THEN Text("insufficient_data")
  ELSE Text(analyze_trend_direction(history.rankings))

\* analysis_tools.analyze_trend, category branch
tool_analyze_trend_category(df) ==
  IF DfLen(df) = 0 THEN Text("not_found") ELSE Text("category_trend_report")

Init ==
  /\ table = EmptyBag
  /\ latest = [p \in Pairs |-> [saved |-> FALSE, rankings_df |-> <<>>]]
  /\ res = Idle
  /\ session = EmptyBag
  /\ thread = [t \in Threads |-> IdleThread]
  /\ ranking_cache = <<>>
  /\ generated_days = 0

save_daily_rankings(ranking_date, category, rankings_df) ==
  /\ res = Idle
  /\ LET t2 == SaveTable(table, ranking_date, category, rankings_df) IN
       /\ Cardinality(StoredPairs(t2)) <= MaxStoredPairs
       /\ table' = t2
  /\ latest' = [latest EXCEPT ![<<ranking_date, category>>] =
                                 [saved |-> TRUE, rankings_df |-> rankings_df]]
  /\ res' = [op |-> "save_daily_rankings", ranking_date |-> ranking_date, category |-> category,
             rankings_df |-> rankings_df, before |-> table,
             previous |-> latest[<<ranking_date, category>>], count |-> Len(rankings_df)]
  /\ UNCHANGED <<concVars, mockVars>>

\* the caller takes the result; the next call may start
Return ==
  /\ res # Idle
  /\ res' = Idle
  /\ UNCHANGED <<table, latest, concVars, mockVars>>

Save == \E d \in Dates, c \in StoreCategories, df \in RowSets : save_daily_rankings(d, c, df)

\* the windows the modelled callers ask for: the repository is asked for
\* every window up to the whole history, the tools for none and the default
QueryDays == 0..MaxDate
ToolDays == {0, DefaultDays}

\* a read-only call: records the call and what it returned
Answer(op, category, product_name, days, val) ==
  /\ res = Idle
  /\ res' = [op |-> op, category |-> category, product_name |-> product_name,
             days |-> days, val |-> val]
  /\ UNCHANGED <<table, latest, concVars, mockVars>>

CategoryRankingsAsDf ==
  \E c \in QueryCategories, days \in QueryDays :
    Answer("get_category_rankings_as_df", c, "", days,
           [kind |-> "df", df |-> get_category_rankings_as_df(table, c, days)])

ProductHistory ==
  \E n \in QueryNames, days \in QueryDays :
    \E h \in get_product_history(table, n, days) :
      Answer("get_product_history", NoCategory, n, days, h)

LaneigeSummary ==
  \E c \in QueryCategories, days \in QueryDays :
    Answer("get_laneige_summary", c, "", days,
           [kind |-> "summary", summary |-> get_laneige_summary(table, c, days)])

ToolProductHistory ==
  \E n \in QueryNames, days \in ToolDays :
    \E h \in get_product_history(table, n, days) :
      Answer("tool_get_product_history", NoCategory, n, days, tool_get_product_history(h))

ToolCategoryRankings ==
  \E c \in QueryCategories, days \in ToolDays :
    Answer("tool_get_category_rankings", c, "", days,
           tool_get_category_rankings(get_category_rankings_as_df(table, c, days)))

ToolCompareCompetitors ==
  \E c \in QueryCategories :
    Answer("tool_compare_competitors", c, "", DefaultDays,
           tool_compare_competitors(get_category_rankings_as_df(table, c, DefaultDays)))

\* analyze_trend(product_name, category): the product branch wins when both
\* are given, the category branch needs an empty product name
ToolAnalyzeTrend ==
  \/ \E n \in QueryNames :
       \E h \in get_product_history(table, n, DefaultDays) :
         \E c \in {NoCategory, lip_care} :
           Answer("tool_analyze_trend", c, n, DefaultDays, tool_analyze_trend_product(h))
  \/ \E c \in QueryCategories :
       Answer("tool_analyze_trend", c, "", DefaultDays,
              tool_analyze_trend_category(get_category_rankings_as_df(table, c, DefaultDays)))
  \/ Answer("tool_analyze_trend", NoCategory, "", DefaultDays, Text("ask_for_target"))

Next ==
  \/ Save
  \/ Return
  \/ CategoryRankingsAsDf
  \/ ProductHistory
  \/ LaneigeSummary
  \/ ToolProductHistory
  \/ ToolCategoryRankings
  \/ ToolCompareCompetitors
  \/ ToolAnalyzeTrend

Spec == Init /\ [][Next]_vars

\* ------------------------------------------------------- concurrent saves
\* Two callers use the one RankingRepository of the module-level
\* ranking_service, hence the one Session and (check_same_thread=False) the
\* one connection.  The statements of save_daily_rankings are the steps: the
\* bulk delete, each session.add and the commit.

\* mutant: the delete flushes the pending records first (autoflush=True),
\* so the pending records of the pair are deleted with the stored ones
SessionDelete_autoflush(t, new, ranking_date, category) ==
  [table |-> DeleteWhere(t (+) new, ranking_date, category), new |-> EmptyBag]

\* query.filter(...).delete(): the DELETE is emitted at once; with
\* autoflush=False the pending records of session.new are not flushed
SessionDelete(t, new, ranking_date, category) ==
  [table |-> DeleteWhere(t, ranking_date, category), new |-> new]

\* session.commit(): every pending record of the session is inserted
SessionCommit(t, new) == [table |-> t (+) new, new |-> EmptyBag]

\* a caller that has deleted and not yet committed
InFlight(u) == thread[u].pc \in {"add", "commit"}

\* a caller enters save_daily_rankings(ranking_date, category, rankings_df)
CallSave(t, ranking_date, category, rankings_df) ==
  /\ thread[t].pc = "idle"
  /\ thread' = [thread EXCEPT ![t] =
                  [pc |-> "delete", ranking_date |-> ranking_date, category |-> category,
                   rankings_df |-> rankings_df, count |-> 0, order |-> 0, overlapped |-> FALSE]]
  /\ UNCHANGED <<table, latest, res, session, mockVars>>

\* the bulk delete; order and overlapped record the history of the run: the
\* position of this delete among the deletes, and whether a delete ran
\* while the other caller was between its delete and its commit
Delete(t) ==
  /\ thread[t].pc = "delete"
  /\ LET r == SessionDelete(table, session, thread[t].ranking_date, thread[t].category)
         others == {u \in Threads \ {t} : InFlight(u)}
     IN /\ table' = r.table
        /\ session' = r.new
        /\ thread' = [u \in Threads |->
                        IF u = t
                          THEN [thread[t] EXCEPT
                                  !.pc = "add",
                                  !.order = 1 + Cardinality({v \in Threads : thread[v].pc
                                                               \in {"add", "commit", "done"}}),
                                  !.overlapped = others # {}]
                        ELSE IF u \in others THEN [thread[u] EXCEPT !.overlapped = TRUE]
                        ELSE thread[u]]
  /\ UNCHANGED <<latest, res, mockVars>>

\* one turn of the loop: session.add(record); count += 1
Add(t) ==
  /\ thread[t].pc = "add"
  /\ LET row == thread[t].rankings_df[thread[t].count + 1]
     IN session' = session (+) SetToBag({RankingHistory(thread[t].ranking_date,
                                                        thread[t].category, row)})
  /\ thread' = [thread EXCEPT ![t].count = @ + 1,
                              ![t].pc = IF thread[t].count + 1 = Len(thread[t].rankings_df)
                                          THEN "commit" ELSE "add"]
  /\ UNCHANGED <<table, latest, res, mockVars>>

\* session.commit(); return count
Commit(t) ==
  /\ thread[t].pc = "commit"
  /\ LET r == SessionCommit(table, session)
     IN table' = r.table /\ session' = r.new
  /\ thread' = [thread EXCEPT ![t].pc = "done"]
  /\ UNCHANGED <<latest, res, mockVars>>

\* the table the callers start on: empty, or with today's lip_care rows of
\* an earlier collection
InitConc ==
  /\ table \in {EmptyBag} \cup {SaveTable(EmptyBag, Today, lip_care, df) : df \in RowSets}
  /\ latest = [p \in Pairs |-> [saved |-> FALSE, rankings_df |-> <<>>]]
  /\ res = Idle
  /\ session = EmptyBag
  /\ thread = [t \in Threads |-> IdleThread]
  /\ ranking_cache = <<>>
  /\ generated_days = 0

\* collect_today_rankings saves under date.today()
NextConc ==
  \E t \in Threads :
    \/ \E c \in StoreCategories, df \in RowSets : CallSave(t, Today, c, df)
    \/ Delete(t)
    \/ Add(t)
    \/ Commit(t)

SpecConc == InitConc /\ [][NextConc]_vars

\* -------------------------------------------------------- mock generators
\* the longest window the generators are asked for
MaxDays == 2

\* str.lower() over the letters of the catalogue labels and category ids
LowerChar(ch) ==
  LET upper == <<"A","B","C","D","E","F","G","H","I","J","K","L","M",
                 "N","O","P","Q","R","S","T","U","V","W","X","Y","Z">>
      lower == <<"a","b","c","d","e","f","g","h","i","j","k","l","m",
                 "n","o","p","q","r","s","t","u","v","w","x","y","z">>
  IN IF \E k \in 1..26 : upper[k] = ch
       THEN lower[CHOOSE k \in 1..26 : upper[k] = ch]
       ELSE ch
Lower(text) == [k \in 1..Len(text) |-> LowerChar(text[k])]

\* str.replace(old, new) for one-character old and new
Replace(text, old, new) == [k \in 1..Len(text) |-> IF text[k] = old THEN new ELSE text[k]]

\* str.contains(sub) with a literal pattern
Contains(text, sub) ==
  \E k \in 0..(Len(text) - Len(sub)) : \A j \in 1..Len(sub) : text[k + j] = sub[j]

\* the category labels of the catalogue
LabelLipCare == <<"L","i","p"," ","C","a","r","e">>
LabelMoisturizer == <<"M","o","i","s","t","u","r","i","z","e","r">>
LabelFaceMask == <<"F","a","c","e"," ","M","a","s","k">>
LabelFacePowder == <<"F","a","c","e"," ","P","o","w","d","e","r">>
LabelLipMakeup == <<"L","i","p"," ","M","a","k","e","u","p">>

\* a category id no product matches
hair_care == <<"h","a","i","r","_","c","a","r","e">>

\* one row of load_all_products(): is_laneige = (brand == "LANEIGE")
Product(product_name, brand, category, amazon_category) ==
  [product_name |-> product_name, brand |-> brand, category |-> category,
   amazon_category |-> amazon_category, is_laneige |-> brand = "LANEIGE"]

\* the catalogue: LANEIGE products first, then the Kaggle rows (all mapped
\* to skincare); one competitor row stands for the Kaggle rows
products ==
  << Product("Lip Sleeping Mask", "LANEIGE", LabelLipCare, lip_care),
     Product("Water Bank Blue Hyaluronic Cream", "LANEIGE", LabelMoisturizer, skincare),
     Product("Neo Cushion Matte", "LANEIGE", LabelFacePowder, face_powder),
     Product("Lip Glowy Balm", "LANEIGE", LabelLipMakeup, lip_makeup),
     Product("Bouncy & Firm Sleeping Mask", "LANEIGE", LabelFaceMask, skincare),
     Product("Lip Sleeping Mask Vanilla", "LANEIGE", LabelLipCare, lip_care),
     Product("Creme de la Mer", "LA MER", LabelMoisturizer, skincare) >>

LANEIGE_SCENARIOS ==
  [n \in {"Lip Sleeping Mask", "Lip Sleeping Mask Vanilla", "Water Bank Blue Hyaluronic Cream",
          "Cream Skin Refiner", "Water Sleeping Mask", "Neo Cushion Matte", "Lip Glowy Balm",
          "Radian-C Cream"} |->
     CASE n \in {"Lip Sleeping Mask", "Water Sleeping Mask"} -> "best_seller"
       [] n \in {"Lip Sleeping Mask Vanilla", "Cream Skin Refiner"} -> "rising_star"
       [] n \in {"Water Bank Blue Hyaluronic Cream", "Lip Glowy Balm"} -> "stable"
       [] OTHER -> "new_entry"]

\* the branches of _apply_scenario with progress = day_index / den.  For
\* windows of up to 14 days int(...) of the floating-point value is the
\* integer floor taken below and the comparisons of progress with 0.2, 0.3,
\* 0.5 and 0.6 are the integer comparisons.
scenario_rank(scenario, day_index, den) ==
  CASE scenario = "best_seller" -> 1..5
    [] scenario = "rising_star" ->
         {Max2(1, ((50 * den - (50 - end_rank) * day_index) \div den) + noise) :
            end_rank \in 5..15, noise \in (0 - 3)..3}
    [] scenario = "stable" -> 15..25
    [] scenario = "declining" ->
         {Min2(100, ((10 * den + 30 * day_index) \div den) + noise) : noise \in (0 - 2)..5}
    [] scenario = "competitor_shock" ->
         IF 10 * day_index < 3 * den THEN 10..15
         ELSE IF 10 * day_index < 6 * den THEN 30..50
         ELSE 15..25
    [] scenario = "new_entry" ->
         IF 10 * day_index < 2 * den THEN 80..100
         ELSE IF 2 * day_index < den THEN 40..60
         ELSE 20..35
    [] OTHER -> {50}

\* mutant: progress taken over the whole window, day_index / total_days
apply_scenario_progress_over_total(scenario, day_index, total_days) ==
  scenario_rank(scenario, day_index, Max2(total_days, 1))

\* _apply_scenario: the ranks the call can return;
\* progress = day_index / max(total_days - 1, 1)
apply_scenario(scenario, day_index, total_days) ==
  scenario_rank(scenario, day_index, Max2(total_days - 1, 1))

\* mutant: a LANEIGE product outside the mapping draws its scenario like a competitor
ScenariosOf_unmapped_drawn(product) ==
  IF product.is_laneige /\ product.product_name \in DOMAIN LANEIGE_SCENARIOS
    THEN {LANEIGE_SCENARIOS[product.product_name]}
  ELSE {"stable", "rising_star", "declining"}

\* the scenarios a product can be given
ScenariosOf(product) ==
  IF product.is_laneige /\ product.product_name \in DOMAIN LANEIGE_SCENARIOS
    THEN {LANEIGE_SCENARIOS[product.product_name]}
  ELSE IF product.is_laneige THEN {"stable"}
  ELSE {"stable", "rising_star", "declining"}

\* the products of a category: by amazon_category, else by the label
\* containing the category id in lower case with "_" turned into " "
category_products(category) ==
  LET exact == SelectSeq(products, LAMBDA p : p.amazon_category = category)
      needle == Replace(Lower(category), "_", " ")
  IN IF Len(exact) # 0 THEN exact
     ELSE SelectSeq(products, LAMBDA p : Contains(Lower(p.category), needle))

\* the draws of a random.randint range that the table generators explore:
\* its two ends
Draws(S) == {SetMin(S), SetMax(S)}

\* provider: the raw day_1..day_N values one product can get; its scenario
\* is chosen once, before the loop over the days
RowDraws(product, days) ==
  UNION {{f \in [1..days -> UNION {Draws(apply_scenario(s, d - 1, days)) : d \in 1..days}] :
            \A d \in 1..days : f[d] \in Draws(apply_scenario(s, d - 1, days))} :
         s \in ScenariosOf(product)}

\* provider: the raw tables of a product list, raw[i][d] for product i and day d
RECURSIVE RawTables(_, _)
RawTables(cp, days) ==
  IF cp = <<>> THEN {<<>>}
  ELSE {<<f>> \o rest : f \in RowDraws(Head(cp), days), rest \in RawTables(Tail(cp), days)}

\* engine: the raw ranks of one day, one per product; the scenario of a
\* competitor is chosen anew inside the loop over the days
RECURSIVE DayDraws(_, _, _)
DayDraws(cp, day_idx, days) ==
  IF cp = <<>> THEN {<<>>}
  ELSE {<<v>> \o rest :
          v \in UNION {Draws(apply_scenario(s, day_idx, days)) : s \in ScenariosOf(Head(cp))},
          rest \in DayDraws(Tail(cp), day_idx, days)}

\* engine: the raw tables, raw[d][i] for day d and product i
RECURSIVE RawDays(_, _, _)
RawDays(cp, n, days) ==
  IF n <= 0 THEN {<<>>}
  ELSE {before \o <<day>> : before \in RawDays(cp, n - 1, days), day \in DayDraws(cp, n - 1, days)}

\* mutant: Series.rank(method="min"), equal values share the lowest rank
rank_min(col) ==
  [i \in 1..Len(col) |-> 1 + Cardinality({j \in 1..Len(col) : col[j] < col[i]})]

\* mutant: equal values ranked against the order they appear in
rank_ties_reversed(col) ==
  [i \in 1..Len(col) |->
     1 + Cardinality({j \in 1..Len(col) : col[j] < col[i]})
       + Cardinality({j \in (i + 1)..Len(col) : col[j] = col[i]})]

\* Series.rank(method="first").astype(int): ascending, equal values ranked
\* in the order they appear
rank_first(col) ==
  [i \in 1..Len(col) |->
     1 + Cardinality({j \in 1..Len(col) : col[j] < col[i]})
       + Cardinality({j \in 1..(i - 1) : col[j] = col[i]})]

\* MockRankingProvider._generate_category_rankings on the raw values drawn
generate_category_rankings(category, days, raw) ==
  LET cp == category_products(category)
      column(d) == rank_first([i \in 1..Len(cp) |-> raw[i][d]])
  IN IF Len(cp) = 0 THEN EmptyDataFrame
     ELSE [day_cols |-> 1..days,
           rows |-> [i \in 1..Len(cp) |->
                       [product_name |-> cp[i].product_name, is_laneige |-> cp[i].is_laneige,
                        day |-> [d \in 1..days |-> column(d)[i]]]]]

\* list.sort(key=rank): stable, an earlier record stays before a later one
\* of the same rank
RECURSIVE sort_by_rank(_)
sort_by_rank(records) ==
  IF records = <<>> THEN <<>>
  ELSE LET x == Head(records)
           rest == sort_by_rank(Tail(records))
           below == SelectSeq(rest, LAMBDA r : r.rank < x.rank)
           others == SelectSeq(rest, LAMBDA r : r.rank >= x.rank)
       IN below \o <<x>> \o others

\* MockRankingEngine.generate_ranking_history on the raw values drawn: the
\* records of history_df, day after day, each day in rank order
RECURSIVE history_records(_, _, _)
history_records(cp, n, raw) ==
  IF n <= 0 THEN <<>>
  ELSE LET daily_rankings == [i \in 1..Len(cp) |->
                                [date |-> n, product_name |-> cp[i].product_name,
                                 rank |-> raw[n][i], is_laneige |-> cp[i].is_laneige]]
           sorted == sort_by_rank(daily_rankings)
       IN history_records(cp, n - 1, raw)
            \o [i \in 1..Len(sorted) |-> [sorted[i] EXCEPT !.rank = i]]

generate_ranking_history(category, days, raw) ==
  LET cp == category_products(category)
  IN IF Len(cp) = 0 THEN <<>> ELSE history_records(cp, days, raw)

\* the categories the generators are asked for: the four of
\* get_all_categories, one matched through the labels, one without products
GenCategories == {lip_care, skincare, lip_makeup, face_powder, makeup, hair_care}
GenDays == 0..MaxDays

\* a direct call of _generate_category_rankings
GenerateCategoryRankings ==
  \E c \in GenCategories, days \in GenDays :
    \E raw \in RawTables(category_products(c), days) :
      /\ res = Idle
      /\ res' = [op |-> "_generate_category_rankings", category |-> c, days |-> days,
                 raw |-> raw, val |-> generate_category_rankings(c, days, raw)]
      /\ UNCHANGED <<table, latest, concVars, mockVars>>

\* a call of MockRankingEngine.generate_ranking_history
GenerateRankingHistory ==
  \E c \in GenCategories, days \in GenDays :
    \E raw \in RawDays(category_products(c), days, days) :
      /\ res = Idle
      /\ res' = [op |-> "generate_ranking_history", category |-> c, days |-> days,
                 raw |-> raw, val |-> generate_ranking_history(c, days, raw)]
      /\ UNCHANGED <<table, latest, concVars, mockVars>>

\* the longest window _apply_scenario is called for
MaxTotalDays == 11

\* RankingScenario
Scenarios == {"best_seller", "rising_star", "stable", "declining",
              "competitor_shock", "new_entry"}

\* one call of _apply_scenario: any rank the random draws can give
ApplyScenario ==
  \E scenario \in Scenarios, total_days \in 1..MaxTotalDays :
    \E day_index \in 0..(total_days - 1) :
      \E rank \in apply_scenario(scenario, day_index, total_days) :
        /\ res = Idle
        /\ res' = [op |-> "_apply_scenario", scenario |-> scenario,
                   day_index |-> day_index, total_days |-> total_days, val |-> rank]
        /\ UNCHANGED <<table, latest, concVars, mockVars>>

\* the scenario the generators choose for one product of the catalogue
AssignScenario ==
  \E i \in 1..Len(products) :
    \E scenario \in ScenariosOf(products[i]) :
      /\ res = Idle
      /\ res' = [op |-> "assign_scenario", product |-> products[i], val |-> scenario]
      /\ UNCHANGED <<table, latest, concVars, mockVars>>

NextMock ==
  \/ GenerateCategoryRankings
  \/ GenerateRankingHistory
  \/ ApplyScenario
  \/ AssignScenario
  \/ Return

SpecMock == Init /\ [][NextMock]_vars

\* --------------------------------------------------- mock provider cache
\* the most entries the cache is let grow to
MaxCacheKeys == 4

\* str(days) for the windows asked for
IntStr(n) == <<<<"0","1","2","3","4","5","6","7","8","9">>[n + 1]>>

\* cache_key = f"{category}_{days}"
cache_key(category, days) == category \o <<"_">> \o IntStr(days)

\* the tables _generate_category_rankings can return
Generated(category, days) ==
  {generate_category_rankings(category, days, raw) :
     raw \in RawTables(category_products(category), days)}

\* MockRankingProvider.get_rankings, fresh being the table a generation
\* returns: the cache, _generated_days and the returned table after the call
get_rankings(cache, gdays, category, days, fresh) ==
  LET key == cache_key(category, days)
  IN IF key \notin DOMAIN cache \/ gdays # days
       THEN [cache |-> [k \in DOMAIN cache \cup {key} |-> IF k = key THEN fresh ELSE cache[k]],
             generated_days |-> days, val |-> fresh]
       ELSE [cache |-> cache, generated_days |-> gdays, val |-> cache[key]]

\* categories = ["lip_care", "skincare", "lip_makeup", "face_powder"]
AllCategories == <<lip_care, skincare, lip_makeup, face_powder>>

\* MockRankingProvider.get_all_categories over the first n categories:
\* val is the dict as the sequence of its (category, df) items
RECURSIVE get_all_categories(_, _, _, _, _)
get_all_categories(cache, gdays, days, fresh, n) ==
  IF n = 0 THEN [cache |-> cache, generated_days |-> gdays, val |-> <<>>]
  ELSE LET before == get_all_categories(cache, gdays, days, fresh, n - 1)
           r == get_rankings(before.cache, before.generated_days, AllCategories[n], days, fresh[n])
       IN [cache |-> r.cache, generated_days |-> r.generated_days,
           val |-> IF DfLen(r.val) > 0
                     THEN Append(before.val, [category |-> AllCategories[n], df |-> r.val])
                     ELSE before.val]

\* the loop of MockRankingProvider.get_product_ranking_history over the
\* items of all_rankings
RECURSIVE product_ranking_history(_, _)
product_ranking_history(all_rankings, product_name) ==
  IF all_rankings = <<>> THEN None
  ELSE LET df == Head(all_rankings).df
           product_row == SelectSeq(df.rows, LAMBDA r : r.product_name = product_name)
           day_cols == SortedSeq(df.day_cols)
           rankings == [k \in 1..Len(day_cols) |-> product_row[1].day[day_cols[k]]]
       IN IF Len(product_row) > 0
            THEN IF Len(rankings) = 0
                   THEN Raise("ZeroDivisionError")
                   ELSE [kind |-> "dict",
                         product_name |-> product_name,
                         category |-> Head(all_rankings).category,
                         rankings |-> rankings,
                         avg_rank |-> Round1(SeqSum(rankings), Len(rankings)),
                         best_rank |-> SetMin(SeqRange(rankings)),
                         worst_rank |-> SetMax(SeqRange(rankings)),
                         trend |-> IF rankings[Len(rankings)] < rankings[1]
                                     THEN "rising" ELSE "declining"]
            ELSE product_ranking_history(Tail(all_rankings), product_name)

\* the windows and names the provider is asked for
ProviderDays == {0, 1}
ProviderNames == {"Lip Sleeping Mask", "Creme de la Mer", "Nonexistent"}

\* a call of get_rankings(category, days); cached is the entry the call
\* found under its key, that is the table the last call with this category
\* and days returned
GetRankings ==
  \E c \in SeqRange(AllCategories) \cup {hair_care}, days \in ProviderDays :
    \E fresh \in Generated(c, days) :
      LET r == get_rankings(ranking_cache, generated_days, c, days, fresh)
      IN /\ res = Idle
         /\ Cardinality(DOMAIN r.cache) <= MaxCacheKeys
         /\ ranking_cache' = r.cache
         /\ generated_days' = r.generated_days
         /\ res' = [op |-> "get_rankings", category |-> c, days |-> days,
                    cached |-> IF cache_key(c, days) \in DOMAIN ranking_cache
                                 THEN <<ranking_cache[cache_key(c, days)]>> ELSE <<>>,
                    val |-> [kind |-> "df", df |-> r.val]]
         /\ UNCHANGED <<table, latest, concVars>>

\* a call of get_product_ranking_history(product_name, days)
GetProductRankingHistory ==
  \E product_name \in ProviderNames, days \in ProviderDays :
    \E f1 \in Generated(AllCategories[1], days), f2 \in Generated(AllCategories[2], days),
       f3 \in Generated(AllCategories[3], days), f4 \in Generated(AllCategories[4], days) :
      LET r == get_all_categories(ranking_cache, generated_days, days, <<f1, f2, f3, f4>>,
                                  Len(AllCategories))
      IN /\ res = Idle
         /\ Cardinality(DOMAIN r.cache) <= MaxCacheKeys
         /\ ranking_cache' = r.cache
         /\ generated_days' = r.generated_days
         /\ res' = [op |-> "get_product_ranking_history", product_name |-> product_name,
                    days |-> days, val |-> product_ranking_history(r.val, product_name)]
         /\ UNCHANGED <<table, latest, concVars>>

\* the caller of the provider takes the result
ProviderReturn ==
  /\ res # Idle
  /\ res' = Idle
  /\ UNCHANGED <<table, latest, concVars, mockVars>>

NextProvider ==
  \/ GetRankings
  \/ GetProductRankingHistory
  \/ ProviderReturn

SpecProvider == Init /\ [][NextProvider]_vars

\* ---------------------------------------------------------- live provider
\* the most pages of a category that answer with items
MaxPages == 1

\* the longest batch handed to the parser
MaxBatchLen == 3

\* for page in range(1, 11)
PageLimit == 10

\* CATEGORY_NODE_IDS, in the order of the dict
CATEGORY_NODE_IDS == <<lip_care, skincare, lip_makeup, face_powder>>

\* an item with a listing price, and an item whose ItemInfo is null
ItemPriced(asin) ==
  [ASIN |-> asin, Title |-> <<"Water Sleeping Mask">>, Brand |-> <<"LANEIGE">>, Price |-> <<32>>]
ItemNullInfo(asin) == [ASIN |-> asin, ItemInfo |-> "null"]

\* what the source does with the requests for one category: the pages
\* 1..pages answer 200 with items, the request after them either fails
\* (network error, timeout, status other than 200) or answers 200 without items
Fetches == [pages : 0..MaxPages, ending : {"failed", "no_more_items"}]

\* the items of a page that answers
PageItems(page) ==
  IF page = 1 THEN <<ItemLaneige, ItemUntitled("B00AAA")>> ELSE <<ItemUntitled("B00BBB")>>

\* _fetch_best_sellers: the items of a 200 response, [] for any other
\* status and for an exception
fetch_best_sellers(fetch, page) ==
  IF page <= fetch.pages THEN PageItems(page) ELSE <<>>

\* the page loop: all_items of the pages from page on, up to the first empty answer
RECURSIVE fetch_all_items(_, _)
fetch_all_items(fetch, page) ==
  IF page > PageLimit THEN <<>>
  ELSE LET items == fetch_best_sellers(fetch, page)
       IN IF items = <<>> THEN <<>> ELSE items \o fetch_all_items(fetch, page + 1)

\* PAAPIRankingProvider.get_today_rankings: category -> rows
paapi_get_today_rankings(fetches) ==
  LET all_items(c) == fetch_all_items(fetches[c], 1)
      df(c) == parse_items_to_rankings(all_items(c), 1)
      kept == {c \in SeqRange(CATEGORY_NODE_IDS) : all_items(c) # <<>> /\ Len(df(c)) > 0}
  IN [c \in kept |-> df(c)]

\* PAAPIRankingProvider.get_rankings: the cache after the call and the frame
\* returned.  The cache key is category_today; today is the same for the
\* calls of a run, so the category stands for the key.  The pages served
\* always hold an item that parses, so df["rank"] exists.
paapi_get_rankings(cache, category, days, fetch) ==
  LET all_items == fetch_all_items(fetch, 1)
      rankings == parse_items_to_rankings(all_items, 1)
      df == [day_cols |-> 1..days,
             rows |-> [i \in 1..Len(rankings) |->
                         [product_name |-> rankings[i].product_name,
                          rank |-> rankings[i].rank,
                          is_laneige |-> rankings[i].is_laneige,
                          day |-> [d \in 1..days |-> rankings[i].rank]]]]
  IN IF category \in DOMAIN cache THEN [cache |-> cache, df |-> cache[category]]
     ELSE IF all_items = <<>> THEN [cache |-> cache, df |-> EmptyDataFrame]
     ELSE [cache |-> cache @@ (category :> df), df |-> df]

\* PAAPIRankingProvider.get_all_categories over the first n categories
RECURSIVE paapi_get_all_categories(_, _, _, _)
paapi_get_all_categories(cache, days, fetches, n) ==
  IF n = 0 THEN [cache |-> cache, results |-> <<>>]
  ELSE LET before == paapi_get_all_categories(cache, days, fetches, n - 1)
           category == CATEGORY_NODE_IDS[n]
           r == paapi_get_rankings(before.cache, category, days, fetches[category])
       IN [cache |-> r.cache,
           results |-> IF DfLen(r.df) > 0 THEN before.results @@ (category :> r.df)
                       ELSE before.results]

\* the batches handed to the parser: up to MaxBatchLen items, each with a
\* price, without an offer, without a title or with a null ItemInfo
LiveItems == {ItemPriced("B00PPP"), ItemLaneige, ItemUntitled("B00AAA"), ItemNullInfo("B00NNN")}
LiveBatches == UNION {[1..n -> LiveItems] : n \in 1..MaxBatchLen}

\* a call of _parse_items_to_rankings
ParseItemsToRankings ==
  \E items \in LiveBatches :
    /\ res = Idle
    /\ res' = [op |-> "_parse_items_to_rankings", items |-> items,
               val |-> parse_items_to_rankings(items, 1)]
    /\ UNCHANGED <<table, latest, concVars, mockVars>>

\* a call of PAAPIRankingProvider.get_today_rankings
PaapiGetTodayRankings ==
  \E fetches \in [SeqRange(CATEGORY_NODE_IDS) -> Fetches] :
    /\ res = Idle
    /\ res' = [op |-> "paapi_get_today_rankings", fetches |-> fetches, cached |-> {},
               val |-> [kind |-> "dict", results |-> paapi_get_today_rankings(fetches)]]
    /\ UNCHANGED <<table, latest, concVars, mockVars>>

\* a call of PAAPIRankingProvider.get_all_categories(): no request is made
\* for a category found in the cache
PaapiGetAllCategories ==
  \E fetches \in [SeqRange(CATEGORY_NODE_IDS) -> Fetches] :
    LET r == paapi_get_all_categories(ranking_cache, DefaultDays, fetches,
                                      Len(CATEGORY_NODE_IDS))
    IN /\ res = Idle
       /\ \A c \in DOMAIN ranking_cache : fetches[c] = [pages |-> 0, ending |-> "no_more_items"]
       /\ res' = [op |-> "paapi_get_all_categories", fetches |-> fetches,
                  cached |-> DOMAIN ranking_cache,
                  val |-> [kind |-> "dict", results |-> r.results]]
       /\ ranking_cache' = r.cache
       /\ UNCHANGED <<table, latest, concVars, generated_days>>

NextLive ==
  \/ ParseItemsToRankings
  \/ PaapiGetTodayRankings
  \/ PaapiGetAllCategories
  \/ Return

SpecLive == Init /\ [][NextLive]_vars

\* the windows get_rankings of the live provider is asked for
LiveDays == {1, 2}

\* a call of PAAPIRankingProvider.get_rankings(category, days); before is
\* the cache entry the call found
PaapiGetRankings ==
  \E c \in SeqRange(CATEGORY_NODE_IDS), days \in LiveDays, fetch \in Fetches :
    LET r == paapi_get_rankings(ranking_cache, c, days, fetch)
    IN /\ res = Idle
       /\ res' = [op |-> "paapi_get_rankings", category |-> c, days |-> days,
                  fetch |-> fetch, cached |-> DOMAIN ranking_cache, val |-> r.df]
       /\ ranking_cache' = r.cache
       /\ UNCHANGED <<table, latest, concVars, generated_days>>

NextLiveCache ==
  \/ PaapiGetRankings
  \/ Return

SpecLiveCache == Init /\ [][NextLiveCache]_vars

\* -------------------------------------------------------- ranking service
\* has_data_for_date: a row of the date exists (of the category, when one is given)
has_data_for_date(t, ranking_date, category) ==
  \E r \in DOMAIN t :
    /\ r.ranking_date = ranking_date
    /\ category # NoCategory => r.category = category

\* collect_today_rankings over the first n categories of the provider's
\* dict: the table after the saves and the number of rows saved per category
RECURSIVE collect_today_rankings(_, _, _)
collect_today_rankings(t, today_rankings, n) ==
  IF n = 0 THEN [table |-> t, results |-> <<>>]
  ELSE LET before == collect_today_rankings(t, today_rankings, n - 1)
           category == CATEGORY_NODE_IDS[n]
       IN IF category \in DOMAIN today_rankings /\ Len(today_rankings[category]) # 0
            THEN [table |-> SaveTable(before.table, Today, category, today_rankings[category]),
                  results |-> before.results @@ (category :> Len(today_rankings[category]))]
            ELSE before

\* mutant: the collection runs whether or not today has data
ensure_today_data_always_collects(t, today_rankings) ==
  [table |-> collect_today_rankings(t, today_rankings, Len(CATEGORY_NODE_IDS)).table,
   val |-> TRUE]

\* ensure_today_data: the table after the call and the value returned
ensure_today_data(t, today_rankings) ==
  IF has_data_for_date(t, Today, NoCategory)
    THEN [table |-> t, val |-> FALSE]
    ELSE [table |-> collect_today_rankings(t, today_rankings, Len(CATEGORY_NODE_IDS)).table,
          val |-> TRUE]

\* history after a collection: the frames saved for today
LatestAfter(before, after, today_rankings) ==
  IF after = before THEN latest
  ELSE [p \in {<<Today, c>> : c \in DOMAIN today_rankings} |->
          [saved |-> TRUE, rankings_df |-> today_rankings[p[2]]]] @@ latest

\* what the live provider's get_today_rankings can supply, over the
\* answers of the source to the requests for each category
TodayRankings ==
  {paapi_get_today_rankings(fetches) : fetches \in [SeqRange(CATEGORY_NODE_IDS) -> Fetches]}

\* a call of RankingService.ensure_today_data with the live provider;
\* today_rankings is what the provider supplies (would supply) to the call
EnsureTodayData ==
  \E today_rankings \in TodayRankings :
    LET r == ensure_today_data(table, today_rankings)
    IN /\ res = Idle
       /\ table' = r.table
       /\ latest' = LatestAfter(table, r.table, today_rankings)
       /\ res' = [op |-> "ensure_today_data", today_rankings |-> today_rankings, before |-> table,
                  val |-> r.val]
       /\ UNCHANGED <<concVars, mockVars>>

\* a call of RankingService.collect_today_rankings with the live provider
CollectTodayRankings ==
  \E today_rankings \in TodayRankings :
    LET r == collect_today_rankings(table, today_rankings, Len(CATEGORY_NODE_IDS))
    IN /\ res = Idle
       /\ table' = r.table
       /\ latest' = [p \in {<<Today, c>> : c \in DOMAIN today_rankings} |->
                       [saved |-> TRUE, rankings_df |-> today_rankings[p[2]]]] @@ latest
       /\ res' = [op |-> "collect_today_rankings", today_rankings |-> today_rankings, before |-> table,
                  val |-> r.results]
       /\ UNCHANGED <<concVars, mockVars>>

\* category: str = "all" of the summary tool
AllCategory == <<"a","l","l">>

\* categories = ["lip_care", "skincare", "makeup"] if category == "all" else [category]
SummaryCategories(category) ==
  IF category = AllCategory THEN <<lip_care, skincare, makeup>> ELSE <<category>>

\* ranking_tools.get_laneige_summary: one part per category of the list
\* with a summary (its heading and the line of every product), or the
\* not-found text when no category has one
tool_get_laneige_summary(t, category) ==
  LET categories == SummaryCategories(category)
      part(cat) ==
        LET summary == get_laneige_summary(t, cat, DefaultDays)
        IN [category |-> cat,
            lines |-> [product \in DOMAIN summary |->
                         [avg_rank |-> summary[product].avg_rank,
                          best_rank |-> summary[product].best_rank,
                          top5_held |-> summary[product].top5_days >= 20]]]
      output_parts ==
        SelectSeq([i \in 1..Len(categories) |-> part(categories[i])],
                  LAMBDA pt : get_laneige_summary(t, pt.category, DefaultDays) # <<>>)
  IN IF output_parts = <<>> THEN Text("not_found")
     ELSE [kind |-> "str", text |-> "laneige_summary", parts |-> output_parts]

\* a call of the summary tool for all categories or for one of them
ToolLaneigeSummary ==
  \E category \in {AllCategory} \cup SeqRange(CATEGORY_NODE_IDS) :
    Answer("tool_get_laneige_summary", category, "", DefaultDays,
           tool_get_laneige_summary(table, category))

\* the store the service starts on: empty, or with the rows of the day before
InitService ==
  /\ \E stored \in {<<>>} \cup {<<df>> : df \in {parse_items_to_rankings(PageItems(1), 1)}} :
       /\ table = IF stored = <<>> THEN EmptyBag
                  ELSE SaveTable(EmptyBag, Today - 1, lip_care, stored[1])
       /\ latest = [p \in Pairs |->
                      IF stored # <<>> /\ p = <<Today - 1, lip_care>>
                        THEN [saved |-> TRUE, rankings_df |-> stored[1]]
                        ELSE [saved |-> FALSE, rankings_df |-> <<>>]]
  /\ res = Idle
  /\ session = EmptyBag
  /\ thread = [t \in Threads |-> IdleThread]
  /\ ranking_cache = <<>>
  /\ generated_days = 0

NextService ==
  \/ EnsureTodayData
  \/ CollectTodayRankings
  \/ ToolLaneigeSummary
  \/ Return

SpecService == InitService /\ [][NextService]_vars

\* ------------------------------------------------------------- insights
\* the longest response text, in tokens
MaxTextLen == 4

\* the tokens of a response text: a Markdown fence (three backquotes), the word json, a JSON
\* object, a JSON array, and text that is not JSON
Fence == "fence"
TextTokens == {Fence, "json", "{}", "[]", "oops"}

\* what client.messages.create gives: an exception (API error, timeout), a
\* response without a text block, or a response text
Responses ==
  {[kind |-> "error"], [kind |-> "no_text"]}
    \cup {[kind |-> "text", text |-> t] :
            t \in UNION {[1..n -> TextTokens] : n \in 0..MaxTextLen}}

\* response_text.split(fence)[1]: the part between the first fence and the next
RECURSIVE UpToFence(_)
UpToFence(tokens) ==
  IF tokens = <<>> \/ Head(tokens) = Fence THEN <<>>
  ELSE <<Head(tokens)>> \o UpToFence(Tail(tokens))

\* the text handed to json.loads: a text that starts with a fence is cut to
\* the part inside the fence, without a leading "json"
fenced_body(text) ==
  IF text # <<>> /\ Head(text) = Fence
    THEN LET inner == UpToFence(Tail(text))
         IN IF inner # <<>> /\ Head(inner) = "json" THEN Tail(inner) ELSE inner
    ELSE text

\* json.loads: one JSON value, else JSONDecodeError; an object decodes to a
\* dict (here without keys), an array to a list
json_loads(text) ==
  IF text = <<"{}">> THEN [kind |-> "dict", items |-> <<>>]
  ELSE IF text = <<"[]">> THEN [kind |-> "list"]
  ELSE Raise("JSONDecodeError")

\* the body of the try of _generate_ai_insights: the insights, or the
\* exception raised (insights["lastUpdated"] = ... on a list is a TypeError)
ai_insights(response, last_updated) ==
  IF response.kind = "error" THEN Raise("APIError")
  ELSE IF response.kind = "no_text" THEN Raise("IndexError")
  ELSE LET insights == json_loads(fenced_body(response.text))
       IN IF insights.kind = "raise" THEN insights
          ELSE IF insights.kind = "list" THEN Raise("TypeError")
          ELSE [kind |-> "dict",
                items |-> [k \in DOMAIN insights.items \cup {"lastUpdated"} |->
                             IF k = "lastUpdated" THEN last_updated ELSE insights.items[k]]]

\* _generate_rule_based_insights_from_summary: the fixed payload (avgRank in tenths)
generate_rule_based_insights_from_summary(last_updated) ==
  [kind |-> "dict",
   items |-> [performanceCards |-> <<"retry_needed">>,
              marketingCards |-> <<"press_refresh">>,
              performanceChart |-> [w \in 1..4 |-> [week |-> w, avgRank |-> 100, top5Rate |-> 30]],
              categoryTrend |-> <<>>,
              lastUpdated |-> last_updated]]

\* mutant: only the JSONDecodeError handler, any other exception leaves the call
generate_ai_insights_decode_errors_only(response, last_updated) ==
  LET r == ai_insights(response, last_updated)
  IN IF r = Raise("JSONDecodeError")
       THEN generate_rule_based_insights_from_summary(last_updated)
       ELSE r

\* _generate_ai_insights: both handlers return the fixed payload
generate_ai_insights(response, last_updated) ==
  LET r == ai_insights(response, last_updated)
  IN IF r.kind = "raise"
       THEN generate_rule_based_insights_from_summary(last_updated)
       ELSE r

\* analyze on an analyzer built with an API key (self.client is set):
\* last_updated is set to the time of the call and read within the call only
Analyze ==
  \E response \in Responses, now \in Dates :
    /\ res = Idle
    /\ res' = [op |-> "analyze", response |-> response, now |-> now,
               val |-> generate_ai_insights(response, now)]
    /\ UNCHANGED <<table, latest, concVars, mockVars>>

NextInsight ==
  \/ Analyze
  \/ Return

SpecInsight == Init /\ [][NextInsight]_vars

\* ------------------------------------------------ statistics of a history
\* the most ranks a history has before its last seven
MaxOlderDays == 9

\* s repeated: k copies of the value v
Repeat(v, k) == [i \in 1..k |-> v]

\* InsightAnalyzer._summarize_ranking_data, the trend of one product row:
\* from 14 ranks on the mean of rankings[-7:] against the mean of
\* rankings[-14:-7] (both sums are over 7 ranks), else "데이터 부족".  The
\* labels stand for 상승, 하락, 유지 and 데이터 부족.
summarize_trend(rankings) ==
  LET n == Len(rankings)
      recent_sum == SeqSum(SubSeq(rankings, n - 6, n))
      prev_sum == SeqSum(SubSeq(rankings, n - 13, n - 7))
  IN IF n >= 14
       THEN IF recent_sum < prev_sum THEN "rising"
            ELSE IF recent_sum > prev_sum THEN "declining"
            ELSE "steady"
       ELSE "insufficient_data"

\* the histories the statistics are applied to: the 7-day history of the
\* test fixture, short histories, and histories made of a head, a run, six
\* equal recent ranks and the last rank
FixtureRankings == <<3, 2, 2, 3, 2, 2, 2>>
RankValues == {1, 3, 6}
HistoryInputs ==
  {FixtureRankings}
    \cup {Repeat(v, k) \o <<last>> : v \in RankValues, k \in 0..5, last \in RankValues}
    \cup UNION {{Repeat(h, p) \o Repeat(v, q) \o Repeat(r, 6) \o <<last>> :
                   h \in RankValues, v \in RankValues, r \in RankValues, last \in RankValues} :
                p \in 0..2, q \in 0..(MaxOlderDays - 2)}

\* analyze_trend(product_name) on a product whose history has these ranks
AnalyzeTrend ==
  \E rankings \in HistoryInputs :
    /\ res = Idle
    /\ res' = [op |-> "analyze_trend", rankings |-> rankings,
               val |-> tool_analyze_trend_product([kind |-> "dict", rankings |-> rankings])]
    /\ UNCHANGED <<table, latest, concVars, mockVars>>

\* the trend _summarize_ranking_data reports for a row with these ranks
SummarizeRankingData ==
  \E rankings \in HistoryInputs :
    /\ res = Idle
    /\ res' = [op |-> "_summarize_ranking_data", rankings |-> rankings,
               val |-> Text(summarize_trend(rankings))]
    /\ UNCHANGED <<table, latest, concVars, mockVars>>

\* the day columns of a summarised DataFrame
MaxSummaryDays == 3

\* ranks on both sides of the top-5 and top-10 thresholds
SummaryRanks == {2, 5, 6, 10, 11}

\* rows of a DataFrame with the columns day_1..day_MaxSummaryDays: a row of
\* the repository may miss days (NaN), it has a rank on one day at least
SummaryRows ==
  UNION {[days -> SummaryRanks] : days \in (SUBSET (1..MaxSummaryDays)) \ {{}}}

\* the statistics MockRankingProvider.get_laneige_summary gives one row
provider_summary_of(ranks) ==
  [avg_rank |-> Round1(SeqSum(ranks), Len(ranks)),
   best_rank |-> SetMin(SeqRange(ranks)),
   worst_rank |-> SetMax(SeqRange(ranks)),
   current_rank |-> ranks[Len(ranks)],
   trend |-> IF ranks[Len(ranks)] < ranks[1] THEN "rising" ELSE "declining",
   top5_days |-> Count(ranks, LAMBDA r : r <= 5),
   top10_days |-> Count(ranks, LAMBDA r : r <= 10)]

\* the loop body of RankingRepository.get_laneige_summary on one row
SummaryOfRow ==
  \E day \in SummaryRows :
    LET df == [day_cols |-> 1..MaxSummaryDays, rows |-> <<>>]
        row == [day |-> day]
    IN /\ res = Idle
       /\ res' = [op |-> "summary_of", row |-> row,
                  val |-> summary_of(RowRanks(df, row))]
       /\ UNCHANGED <<table, latest, concVars, mockVars>>

\* the loop body of MockRankingProvider.get_laneige_summary on one row:
\* a generated row has a rank on every day
ProviderSummaryOfRow ==
  \E day \in [1..MaxSummaryDays -> SummaryRanks] :
    LET row == [day |-> day]
    IN /\ res = Idle
       /\ res' = [op |-> "provider_summary_of", row |-> row,
                  val |-> provider_summary_of(day)]
       /\ UNCHANGED <<table, latest, concVars, mockVars>>

\* round(num / den * 100, 0): a percentage rounded to a whole number, ties to even
RoundPercent(num, den) ==
  LET n == 100 * num
      q == n \div den
      r == n % den
  IN IF 2 * r < den THEN q
     ELSE IF 2 * r > den THEN q + 1
     ELSE IF q % 2 = 0 THEN q ELSE q + 1

\* the last day of the window _generate_performance_chart clamps a week to
ChartDays == 30

\* the concatenation of a sequence of sequences
RECURSIVE Concat(_)
Concat(ss) == IF ss = <<>> THEN <<>> ELSE Head(ss) \o Concat(Tail(ss))

\* week_cols: the columns day_start..day_end of a week that the frame has
week_cols(week_idx, day_cols) ==
  LET start == week_idx * 7 + 1
      end == Min2((week_idx + 1) * 7, ChartDays)
  IN SortedSeq({d \in start..end : d \in day_cols})

\* the ranks one DataFrame adds to week_ranks: its LANEIGE rows, the
\* columns of the week, the cells that are not NaN
df_week_ranks(week_idx, df) ==
  LET cols == week_cols(week_idx, df.day_cols)
      cells(row) == SelectSeq(cols, LAMBDA d : d \in DOMAIN row.day)
      ranks(row) == IF row.is_laneige
                      THEN [i \in 1..Len(cells(row)) |-> row.day[cells(row)[i]]]
                      ELSE <<>>
  IN Concat([i \in 1..Len(df.rows) |-> ranks(df.rows[i])])

\* _generate_performance_chart: one entry per week, avgRank in tenths
generate_performance_chart(ranking_data) ==
  [w \in 1..4 |->
     LET week_ranks == Concat([c \in 1..Len(ranking_data) |->
                                 df_week_ranks(w - 1, ranking_data[c])])
         n == Len(week_ranks)
     IN [week |-> w,
         avgRank |-> IF n > 0 THEN Round1(SeqSum(week_ranks), n) ELSE 0,
         top5Rate |-> IF n > 0
                        THEN RoundPercent(Count(week_ranks, LAMBDA r : r <= 5), n)
                        ELSE 0]]

\* the lengths of the windows the chart is drawn for
ChartWindows == {1, 7, 8, 14, 21, 22, 28, 29, ChartDays}

\* a frame of one category with the columns day_1..day_n: a LANEIGE row at
\* rank 20 except for rank 1 on the day top, and a competitor always at rank 2
ChartFrame(n, top) ==
  [day_cols |-> 1..n,
   rows |-> <<[is_laneige |-> TRUE, day |-> [d \in 1..n |-> IF d = top THEN 1 ELSE 20]],
              [is_laneige |-> FALSE, day |-> [d \in 1..n |-> 2]]>>]

\* _generate_performance_chart on the frame of one category
GeneratePerformanceChart ==
  \E n \in ChartWindows :
    \E top \in 1..n :
      /\ res = Idle
      /\ res' = [op |-> "_generate_performance_chart", days |-> n, top |-> top,
                 val |-> generate_performance_chart(<<ChartFrame(n, top)>>)]
      /\ UNCHANGED <<table, latest, concVars, mockVars>>

\* the result is taken
StatsReturn ==
  /\ res # Idle
  /\ res' = Idle
  /\ UNCHANGED <<table, latest, concVars, mockVars>>

NextStats ==
  \/ AnalyzeTrend
  \/ SummarizeRankingData
  \/ SummaryOfRow
  \/ ProviderSummaryOfRow
  \/ GeneratePerformanceChart
  \/ StatsReturn

SpecStats == Init /\ [][NextStats]_vars

\* ----------------------------------------------------------------- claims
\* the rows a DataFrame stands for under one (date, category), read off the
\* DataFrame independently of InsertRows
RowsGiven(ranking_date, category, rankings_df) ==
  LET rec(i) == [ranking_date |-> ranking_date, category |-> category,
                 product_name |-> rankings_df[i].product_name, rank |-> rankings_df[i].rank,
                 is_laneige |-> rankings_df[i].is_laneige]
  IN [r \in {rec(i) : i \in 1..Len(rankings_df)} |->
        Cardinality({i \in 1..Len(rankings_df) : rec(i) = r})]

\* C2: for every (date, category) the stored rows are exactly the rows of the
\* most recent save_daily_rankings call for that pair; nothing of an earlier
\* save survives and nothing of the latest one is missing.
C2_LatestSaveWins ==
  \A p \in Pairs : StoredFor(table, p[1], p[2]) = RowsGiven(p[1], p[2], latest[p].rankings_df)

\* a save has just replaced a different row set of the same pair
C2_Witness ==
  /\ res.op = "save_daily_rankings"
  /\ res.previous.saved
  /\ res.previous.rankings_df # res.rankings_df
  /\ StoredFor(table, res.ranking_date, res.category)
       = RowsGiven(res.ranking_date, res.category, res.rankings_df)

\* C3: saving the same rows again for a pair whose latest save already held
\* these rows leaves the table as it was.
C3_SaveIdempotent ==
  (/\ res.op = "save_daily_rankings"
   /\ res.previous.saved
   /\ res.previous.rankings_df = res.rankings_df)
  => table = res.before

\* the second of two equal saves has run on a table that holds other rows too
C3_Witness ==
  /\ res.op = "save_daily_rankings"
  /\ res.previous.saved
  /\ res.previous.rankings_df = res.rankings_df
  /\ Len(res.rankings_df) = 2
  /\ table = res.before
  /\ Cardinality(StoredPairs(table)) = 2

\* the calendar days of a window of `days` days ending today
Window(days) == (Today - days + 1)..Today

\* C4: when every calendar day of the window has had a save for the
\* category, get_category_rankings_as_df(category, days) has the columns
\* day_1..day_days, one row per saved product name, and for every saved row
\* the cell day_i of its product holds the saved rank, i being the day's
\* position in the window (day_1 oldest, day_days today); no other cell is set.
C4_RoundTrip ==
  (/\ res.op = "get_category_rankings_as_df"
   /\ res.days >= 1
   /\ res.category \in StoreCategories
   /\ \A d \in Window(res.days) : d \in Dates /\ latest[<<d, res.category>>].saved)
  => LET df == res.val.df
         saved(d) == latest[<<d, res.category>>].rankings_df
         day_i(d) == d - (Today - res.days)
     IN /\ df.day_cols = 1..res.days
        /\ DOMAIN df.rows = UNION {{saved(d)[i].product_name : i \in 1..Len(saved(d))} :
                                     d \in Window(res.days)}
        /\ \A d \in Window(res.days) : \A i \in 1..Len(saved(d)) :
             LET cells == df.rows[saved(d)[i].product_name].day
             IN day_i(d) \in DOMAIN cells /\ cells[day_i(d)] = saved(d)[i].rank
        /\ \A name \in DOMAIN df.rows : \A n \in DOMAIN df.rows[name].day :
             \E i \in 1..Len(saved(Today - res.days + n)) :
                saved(Today - res.days + n)[i].product_name = name

\* C5: the store never holds two records with the same
\* (ranking_date, category, product_name).
C5_UniquePerProduct ==
  \A r \in DOMAIN table :
    /\ table[r] = 1
    /\ \A q \in DOMAIN table :
         (/\ q.ranking_date = r.ranking_date
          /\ q.category = r.category
          /\ q.product_name = r.product_name) => q = r

\* the dates of the window on which the table holds rows of a category
DatesPresent(category, days) ==
  {r.ranking_date : r \in {x \in DOMAIN table : /\ x.category = category
                                                 /\ x.ranking_date \in Window(days)}}

\* position of a date among the dates present, oldest first
Ordinal(present, d) == CHOOSE n \in 1..Cardinality(present) : SortedSeq(present)[n] = d

\* C7: the columns of get_category_rankings_as_df are day_1..day_k for the k
\* distinct dates of the window that have rows for the category; a stored
\* row's rank sits in the column numbered by the position of its date among
\* those dates (oldest first), and a column cell is only set from a row of
\* the date at that position.
C7_DayColumnsAreOrdinals ==
  res.op = "get_category_rankings_as_df"
  => LET df == res.val.df
         present == DatesPresent(res.category, res.days)
         stored == {r \in DOMAIN table : /\ r.category = res.category
                                         /\ r.ranking_date \in Window(res.days)}
     IN /\ df.day_cols = 1..Cardinality(present)
        /\ Cardinality(present) <= res.days
        /\ \A r \in stored :
             /\ r.product_name \in DOMAIN df.rows
             /\ Ordinal(present, r.ranking_date) \in DOMAIN df.rows[r.product_name].day
        /\ \A name \in DOMAIN df.rows : \A n \in DOMAIN df.rows[name].day :
             /\ n \in 1..Cardinality(present)
             /\ \E r \in stored : /\ r.product_name = name
                                  /\ r.ranking_date = SortedSeq(present)[n]
                                  /\ r.rank = df.rows[name].day[n]

\* a window of three days in which the middle day has no rows: today's
\* ranks sit in day_2
C7_Witness ==
  /\ res.op = "get_category_rankings_as_df"
  /\ res.days = 3
  /\ DatesPresent(res.category, res.days) = {Today - 2, Today}
  /\ res.val.df.day_cols = {1, 2}
  /\ \E name \in DOMAIN res.val.df.rows : 2 \in DOMAIN res.val.df.rows[name].day

\* rows of the table with a product name inside the window
NamedRows(product_name, days) ==
  {r \in DOMAIN table : r.product_name = product_name /\ r.ranking_date \in Window(days)}

\* C8: a lookup that matches no stored row never raises and gives the "no
\* data" answer: get_product_history None, get_category_rankings_as_df the
\* empty table, get_laneige_summary the empty dict, and the tools
\* get_product_history, get_category_rankings, compare_competitors and
\* analyze_trend the "not found" message.
C8_NotFoundNeverRaises ==
  /\ (res.op = "get_product_history" /\ NamedRows(res.product_name, res.days) = {})
       => res.val = None
  /\ (res.op = "get_category_rankings_as_df" /\ DatesPresent(res.category, res.days) = {})
       => res.val.df = EmptyDataFrame
  /\ (res.op = "get_laneige_summary" /\ DatesPresent(res.category, res.days) = {})
       => res.val.summary = <<>>
  /\ (res.op = "tool_get_product_history" /\ NamedRows(res.product_name, res.days) = {})
       => res.val = Text("not_found")
  /\ (/\ res.op \in {"tool_get_category_rankings", "tool_compare_competitors"}
      /\ DatesPresent(res.category, res.days) = {})
       => res.val = Text("not_found")
  /\ (/\ res.op = "tool_analyze_trend"
      /\ \/ res.product_name # "" /\ NamedRows(res.product_name, res.days) = {}
         \/ /\ res.product_name = ""
            /\ res.category # NoCategory
            /\ DatesPresent(res.category, res.days) = {})
       => res.val = Text("not_found")

\* the category tool is asked for a category without rows while the table
\* holds rows of two other (date, category) pairs
C8_Witness ==
  /\ res.op = "tool_get_category_rankings"
  /\ res.category = makeup
  /\ res.days = DefaultDays
  /\ Cardinality(StoredPairs(table)) = 2
  /\ res.val = Text("not_found")

\* C10: the trend of get_product_history and of get_laneige_summary is
\* "rising" exactly when the last rank of the window is strictly below the
\* first one and "declining" otherwise (ties and single points included).
C10_TrendRisingIffLastBelowFirst ==
  /\ (res.op = "get_product_history" /\ res.val.kind = "dict")
       => LET rows == NamedRows(res.product_name, res.days)
              oldest == SetMin({r.ranking_date : r \in rows})
              newest == SetMax({r.ranking_date : r \in rows})
              first == res.val.rankings[1]
              last == res.val.rankings[Len(res.val.rankings)]
          IN /\ first \in {r.rank : r \in {x \in rows : x.ranking_date = oldest}}
             /\ last \in {r.rank : r \in {x \in rows : x.ranking_date = newest}}
             /\ res.val.trend \in {"rising", "declining"}
             /\ res.val.trend = "rising" <=> last < first
  /\ res.op = "get_laneige_summary"
       => \A name \in DOMAIN res.val.summary :
            LET rows == {r \in NamedRows(name, res.days) : r.category = res.category}
                oldest == SetMin({r.ranking_date : r \in rows})
                newest == SetMax({r.ranking_date : r \in rows})
            IN /\ rows # {}
               /\ res.val.summary[name].trend \in {"rising", "declining"}
               /\ \A f \in {x \in rows : x.ranking_date = oldest} :
                    \A l \in {x \in rows : x.ranking_date = newest} :
                       res.val.summary[name].trend = "rising" <=> l.rank < f.rank

\* a history of two days with equal first and last rank is reported declining
C10_Witness ==
  /\ res.op = "get_product_history"
  /\ res.val.kind = "dict"
  /\ Len(res.val.rankings) = 2
  /\ res.val.dates[1] < res.val.dates[2]
  /\ res.val.rankings[1] = res.val.rankings[2]
  /\ res.val.trend = "declining"

\* a summary over two days reports a product that moved from rank 2 to rank 1 rising
C10_WitnessRising ==
  /\ res.op = "get_laneige_summary"
  /\ \E name \in DOMAIN res.val.summary :
       /\ res.val.summary[name].trend = "rising"
       /\ res.val.summary[name].worst_rank = 2
       /\ res.val.summary[name].current_rank = 1

\* both callers have returned from a save of the same (date, category)
BothSavedSamePair ==
  /\ \A t \in Threads : thread[t].pc = "done"
  /\ thread["t1"].ranking_date = thread["t2"].ranking_date
  /\ thread["t1"].category = thread["t2"].category

\* the rows a caller gave
RowsOf(t) == RowsGiven(thread[t].ranking_date, thread[t].category, thread[t].rankings_df)

\* C6: nothing serializes two saves on the shared repository.  When both
\* have returned, a pair saved by one caller only holds that caller's rows;
\* a pair saved by both holds the rows of the later caller if the saves did
\* not overlap, and the rows of both callers together (neither caller's row
\* set) if one caller's delete ran between the other's delete and commit.
C6_OverlappingSavesMix ==
  (\A t \in Threads : thread[t].pc = "done")
  => /\ session = EmptyBag
     /\ ~BothSavedSamePair
          => \A t \in Threads :
               StoredFor(table, thread[t].ranking_date, thread[t].category) = RowsOf(t)
     /\ BothSavedSamePair
          => LET stored == StoredFor(table, thread["t1"].ranking_date, thread["t1"].category)
                 later == CHOOSE t \in Threads : thread[t].order = 2
             IN /\ thread["t1"].overlapped = thread["t2"].overlapped
                /\ IF thread["t1"].overlapped
                     THEN stored = RowsOf("t1") (+) RowsOf("t2")
                     ELSE stored = RowsOf(later)

\* two overlapping saves of different row sets have returned and the rows
\* stored for the pair are neither caller's row set
C6_Witness ==
  /\ BothSavedSamePair
  /\ thread["t1"].rankings_df # thread["t2"].rankings_df
  /\ LET stored == StoredFor(table, thread["t1"].ranking_date, thread["t1"].category)
     IN stored # RowsOf("t1") /\ stored # RowsOf("t2")

\* C1: for a category with N products and days >= 1, every day column of a
\* freshly generated table holds each of the ranks 1..N exactly once, one
\* per product, whatever raw values were drawn; for the engine every day of
\* the history holds one record per product with the ranks 1..N.
C1_DayColumnsArePermutations ==
  LET cp == category_products(res.category)
      N == Len(cp)
  IN /\ (res.op = "_generate_category_rankings" /\ res.days >= 1 /\ N >= 1)
          => /\ res.val.day_cols = 1..res.days
             /\ DOMAIN res.val.rows = 1..N
             /\ \A d \in 1..res.days :
                  /\ \A i \in 1..N : d \in DOMAIN res.val.rows[i].day
                  /\ {res.val.rows[i].day[d] : i \in 1..N} = 1..N
     /\ (res.op = "generate_ranking_history" /\ res.days >= 1 /\ N >= 1)
          => \A d \in 1..res.days :
               LET of_day == SelectSeq(res.val, LAMBDA r : r.date = d)
               IN /\ Len(of_day) = N
                  /\ {of_day[i].rank : i \in 1..N} = 1..N
                  /\ BagOfSeq([i \in 1..N |-> of_day[i].product_name])
                       = BagOfSeq([i \in 1..N |-> cp[i].product_name])

\* a provider table of three products and two days whose raw first column
\* has two equal values, all above N
C1_Witness ==
  /\ res.op = "_generate_category_rankings"
  /\ res.days = 2
  /\ Len(res.raw) = 3
  /\ res.raw[1][1] = res.raw[2][1]
  /\ res.raw[1][1] > 3
  /\ {res.val.rows[i].day[1] : i \in 1..3} = 1..3

\* an engine history of three products and two days whose raw ranks of the
\* second day are all equal
C1_WitnessEngine ==
  /\ res.op = "generate_ranking_history"
  /\ res.days = 2
  /\ Len(res.val) = 6
  /\ res.raw[2][1] = res.raw[2][2]
  /\ res.raw[2][2] = res.raw[2][3]

\* C9: no statistics function raises a division error on an empty rank
\* sequence, whatever window it is asked for: the provider's
\* get_product_ranking_history never ends in ZeroDivisionError.
C9_NoDivisionError ==
  res.op = "get_product_ranking_history" => res.val # Raise("ZeroDivisionError")

\* C11 as stated: a history of at least one and fewer than 7 ranks carries
\* an "insufficient data" marker in its trend field, not "rising" or
\* "declining".
C11_ShortHistoryMarked ==
  (/\ res.op = "get_product_history"
   /\ res.val.kind = "dict"
   /\ Len(res.val.rankings) >= 1
   /\ Len(res.val.rankings) < 7)
  => res.val.trend \notin {"rising", "declining"}

\* C11 amended: a history of at least one and fewer than 7 ranks still
\* carries "rising" or "declining", decided by its last and first rank; the
\* insufficient-data answer is the analyze_trend tool's, given for every
\* product that has rows in its window (fewer than 7 in every table here).
C11_ShortHistoryStillBinary ==
  /\ (/\ res.op = "get_product_history"
      /\ res.val.kind = "dict"
      /\ Len(res.val.rankings) >= 1
      /\ Len(res.val.rankings) < 7)
       => /\ res.val.trend \in {"rising", "declining"}
          /\ res.val.trend = "rising"
               <=> res.val.rankings[Len(res.val.rankings)] < res.val.rankings[1]
  /\ (/\ res.op = "tool_analyze_trend"
      /\ res.product_name # ""
      /\ NamedRows(res.product_name, res.days) # {}
      /\ Cardinality(NamedRows(res.product_name, res.days)) < 7)
       => res.val = Text("insufficient_data")

\* a history of two ranks, the last below the first, is reported rising
C11_Witness ==
  /\ res.op = "get_product_history"
  /\ res.val.kind = "dict"
  /\ Len(res.val.rankings) = 2
  /\ res.val.rankings[2] < res.val.rankings[1]
  /\ res.val.trend = "rising"

\* C12: a rank sequence of fewer than 7 ranks is classified insufficient
\* data; one of 7 to 13 ranks is rising exactly when its last rank is below
\* its first; one of 14 or more is rising exactly when the mean of its last
\* 7 ranks is below the mean of the 7 ranks before them.  Both analyze_trend
\* and _summarize_ranking_data classify this way.
C12_TrendRule ==
  res.op \in {"analyze_trend", "_summarize_ranking_data"}
  => LET r == res.rankings
         n == Len(r)
         rising == res.val.text \in {"rising", "rising_strong", "rising_slight"}
     IN /\ n < 7 => res.val = Text("insufficient_data")
        /\ (n >= 7 /\ n < 14)
             => /\ res.val # Text("insufficient_data")
                /\ rising <=> r[n] < r[1]
        /\ n >= 14
             => /\ res.val # Text("insufficient_data")
                /\ rising <=> SeqSum(SubSeq(r, n - 6, n)) < SeqSum(SubSeq(r, n - 13, n - 7))

\* sum of the ranks of a set of distinct rows
RECURSIVE RankSum(_)
RankSum(rows) ==
  IF rows = {} THEN 0
  ELSE LET r == CHOOSE x \in rows : TRUE IN r.rank + RankSum(rows \ {r})

\* avg (in tenths) is the mean of rows rounded to one decimal, best and worst
\* are the extremes of rows, and the mean lies between them
StatisticsOf(rows, avg, best, worst) ==
  /\ 2 * (10 * RankSum(rows) - avg * Cardinality(rows)) <= Cardinality(rows)
  /\ 2 * (avg * Cardinality(rows) - 10 * RankSum(rows)) <= Cardinality(rows)
  /\ best = SetMin({r.rank : r \in rows})
  /\ worst = SetMax({r.rank : r \in rows})
  /\ 10 * best <= avg
  /\ avg <= 10 * worst

\* C13: avg_rank is sum(ranks) / len(ranks) rounded to one decimal,
\* best_rank the smallest and worst_rank the largest rank of the window, so
\* best_rank <= avg_rank <= worst_rank, in get_product_history and in
\* get_laneige_summary alike.
C13_AvgBestWorst ==
  /\ (res.op = "get_product_history" /\ res.val.kind = "dict")
       => LET rows == NamedRows(res.product_name, res.days)
          IN /\ \A r \in rows : table[r] = 1
             /\ Len(res.val.rankings) = Cardinality(rows)
             /\ StatisticsOf(rows, res.val.avg_rank, res.val.best_rank, res.val.worst_rank)
  /\ res.op = "get_laneige_summary"
       => \A name \in DOMAIN res.val.summary :
            LET rows == {r \in NamedRows(name, res.days) : r.category = res.category}
                s == res.val.summary[name]
            IN /\ rows # {}
               /\ \A r \in rows : table[r] = 1
               /\ StatisticsOf(rows, s.avg_rank, s.best_rank, s.worst_rank)

\* a history of the ranks 1, 2, 2 has the mean 5/3 reported as 1.7
C13_Witness ==
  /\ res.op = "get_product_history"
  /\ res.val.kind = "dict"
  /\ Len(res.val.rankings) = 3
  /\ SeqSum(res.val.rankings) = 5
  /\ res.val.avg_rank = 17
  /\ res.val.best_rank = 1
  /\ res.val.worst_rank = 2

\* a summary over two days with the ranks 1 and 2 reports the mean 1.5
C13_WitnessSummary ==
  /\ res.op = "get_laneige_summary"
  /\ \E name \in DOMAIN res.val.summary :
       /\ res.val.summary[name].avg_rank = 15
       /\ res.val.summary[name].best_rank = 1
       /\ res.val.summary[name].worst_rank = 2

\* C14: in a summary top10_days is at least top5_days and neither exceeds
\* the number of days on which the row has a rank.
C14_TopDaysOrdered ==
  res.op \in {"summary_of", "provider_summary_of"}
    => LET present == Cardinality(DOMAIN res.row.day)
       IN /\ res.val.top5_days <= res.val.top10_days
          /\ res.val.top10_days <= present
          /\ res.val.top5_days <= present

\* a row missing one day, with a rank between 6 and 10 and a rank above 10:
\* no top-5 day, one top-10 day, two days present
C14_Witness ==
  /\ res.op = "summary_of"
  /\ Cardinality(DOMAIN res.row.day) = 2
  /\ res.val.top5_days = 0
  /\ res.val.top10_days = 1
  /\ res.val.worst_rank = 11

\* C15: the weekly chart partitions the window: the ranks of every existing
\* day column go into exactly one week, none twice and none left out.  The
\* LANEIGE row holds its only top-5 rank on the day res.top, so the week of
\* that day (the fourth for the days after day 21) and no other week has a
\* positive TOP-5 rate.
C15_ChartPartitionsWindow ==
  res.op = "_generate_performance_chart"
    => \A w \in 1..4 :
         res.val[w].top5Rate > 0 <=> w = Min2((res.top - 1) \div 7 + 1, 4)

\* the rank the engine's history gives product i of the catalogue on day d
EngineRank(d, i) ==
  LET name == category_products(res.category)[i].product_name
      k == CHOOSE k \in 1..Len(res.val) :
             res.val[k].date = d /\ res.val[k].product_name = name
  IN res.val[k].rank

\* a comes before b: a lower raw rank, or the same raw rank and an earlier
\* place in the catalogue
RawBefore(raw_a, a, raw_b, b) == raw_a < raw_b \/ (raw_a = raw_b /\ a < b)

\* C16: re-ranking a day preserves the raw order and breaks ties by the
\* iteration order of the catalogue: of two products the one with the lower
\* raw rank, or with the same raw rank and the earlier place in the
\* catalogue, gets the lower rank, in both generators.
C16_RerankKeepsRawOrder ==
  /\ (res.op = "_generate_category_rankings" /\ DfLen(res.val) > 0)
       => \A d \in 1..res.days : \A a, b \in DOMAIN res.val.rows :
            RawBefore(res.raw[a][d], a, res.raw[b][d], b)
              => res.val.rows[a].day[d] < res.val.rows[b].day[d]
  /\ (res.op = "generate_ranking_history" /\ res.val # <<>>)
       => \A d \in 1..res.days :
            \A a, b \in 1..Len(category_products(res.category)) :
              RawBefore(res.raw[d][a], a, res.raw[d][b], b)
                => EngineRank(d, a) < EngineRank(d, b)

\* the provider ranks three products of one day with the same raw rank
\* 1, 2, 3 in catalogue order
C16_Witness ==
  /\ res.op = "_generate_category_rankings"
  /\ res.days >= 1
  /\ DfLen(res.val) >= 3
  /\ \E a, b, c \in DOMAIN res.val.rows :
       /\ a < b /\ b < c
       /\ res.raw[a][1] = res.raw[b][1]
       /\ res.raw[b][1] = res.raw[c][1]
       /\ res.val.rows[a].day[1] + 1 = res.val.rows[b].day[1]
       /\ res.val.rows[b].day[1] + 1 = res.val.rows[c].day[1]

\* the engine ranks a later product of the catalogue above an earlier one
\* that drew a higher raw rank, and two products with equal raw ranks in
\* catalogue order
C16_WitnessEngine ==
  /\ res.op = "generate_ranking_history"
  /\ res.days >= 1
  /\ \E a, b \in 1..Len(category_products(res.category)) :
       /\ a < b
       /\ res.raw[1][a] > res.raw[1][b]
       /\ EngineRank(1, a) > EngineRank(1, b)
  /\ \E a, b \in 1..Len(category_products(res.category)) :
       /\ a < b
       /\ res.raw[1][a] = res.raw[1][b]
       /\ EngineRank(1, a) < EngineRank(1, b)

\* C17: _apply_scenario returns a rank inside the interval of its rule, with
\* progress = day_index / max(total_days - 1, 1) (p/q below stands for
\* progress < p/q): BEST_SELLER in [1,5]; STABLE in [15,25];
\* COMPETITOR_SHOCK in [10,15] below 0.3, in [30,50] from 0.3 to below 0.6,
\* else in [15,25]; NEW_ENTRY in [80,100] below 0.2, in [40,60] from 0.2 to
\* below 0.5, else in [20,35]; RISING_STAR at least 1; DECLINING at most 100.
C17_ScenarioIntervals ==
  res.op = "_apply_scenario"
    => LET q == IF res.total_days - 1 >= 1 THEN res.total_days - 1 ELSE 1
           Below(num, den) == den * res.day_index < num * q
           rank == res.val
       IN /\ res.scenario = "best_seller" => rank \in 1..5
          /\ res.scenario = "stable" => rank \in 15..25
          /\ res.scenario = "competitor_shock"
               => rank \in (IF Below(3, 10) THEN 10..15
                            ELSE IF Below(6, 10) THEN 30..50 ELSE 15..25)
          /\ res.scenario = "new_entry"
               => rank \in (IF Below(2, 10) THEN 80..100
                            ELSE IF Below(5, 10) THEN 40..60 ELSE 20..35)
          /\ res.scenario = "rising_star" => rank >= 1
          /\ res.scenario = "declining" => rank <= 100

\* on day 3 of an 11-day window progress is exactly 0.3 and the competitor
\* shock has set in: rank 50
C17_Witness ==
  /\ res.op = "_apply_scenario"
  /\ res.scenario = "competitor_shock"
  /\ res.total_days = 11
  /\ res.day_index = 3
  /\ res.val = 50

\* C18: a LANEIGE product named in the static mapping gets the mapped
\* scenario, a LANEIGE product outside the mapping gets STABLE, and any other
\* product gets STABLE, RISING_STAR or DECLINING, never BEST_SELLER,
\* COMPETITOR_SHOCK or NEW_ENTRY.
C18_ScenarioAssignment ==
  res.op = "assign_scenario"
    => LET p == res.product
           mapped == p.product_name \in DOMAIN LANEIGE_SCENARIOS
       IN /\ (p.is_laneige /\ mapped) => res.val = LANEIGE_SCENARIOS[p.product_name]
          /\ (p.is_laneige /\ ~mapped) => res.val = "stable"
          /\ ~p.is_laneige
               => /\ res.val \in {"stable", "rising_star", "declining"}
                  /\ res.val \notin {"best_seller", "competitor_shock", "new_entry"}

\* a LANEIGE product that the mapping does not name is given STABLE
C18_Witness ==
  /\ res.op = "assign_scenario"
  /\ res.product.is_laneige
  /\ res.product.product_name \notin DOMAIN LANEIGE_SCENARIOS
  /\ res.val = "stable"

\* a competitor is given DECLINING
C18_WitnessCompetitor ==
  /\ res.op = "assign_scenario"
  /\ ~res.product.is_laneige
  /\ res.val = "declining"

\* a mapped LANEIGE product is given a scenario no competitor can get
C18_WitnessMapped ==
  /\ res.op = "assign_scenario"
  /\ res.product.is_laneige
  /\ res.val = "best_seller"

\* a request for the category was made and failed
RequestFailed(c) == c \notin res.cached /\ res.fetches[c].ending = "failed"

\* the requests for the category were made and none failed, and items came
RequestsAnswered(c) ==
  /\ c \notin res.cached
  /\ res.fetches[c].ending = "no_more_items"
  /\ res.fetches[c].pages >= 1

\* C19: when a request for a category fails during get_today_rankings or
\* get_all_categories that category yields no results and is absent from the
\* dict returned, every other category is still returned, and no exception
\* reaches the caller.
C19_FailedCategoryAbsent ==
  res.op \in {"paapi_get_today_rankings", "paapi_get_all_categories"}
    => /\ res.val.kind = "dict"
       /\ \A c \in SeqRange(CATEGORY_NODE_IDS) :
            /\ RequestFailed(c) => c \notin DOMAIN res.val.results
            /\ RequestsAnswered(c) => c \in DOMAIN res.val.results

\* the item has the shape the parser expects: ItemInfo with a title, and an
\* offer with a price
ExpectedShape(item) ==
  /\ ~ParseRaises(item)
  /\ item.Title # <<>>
  /\ "Price" \in DOMAIN item

\* the ranks of the rows the parser returned
ParsedRanks == {res.val[k].rank : k \in 1..Len(res.val)}

\* C20: an item of a batch that deviates from the expected shape (for
\* example one without an offer price) is left out of the parsed rankings,
\* and every other item of the batch is kept.
C20_DeviatingItemLeftOut ==
  res.op = "_parse_items_to_rankings"
    => \A i \in 1..Len(res.items) : i \in ParsedRanks <=> ExpectedShape(res.items[i])

\* C20 as the code has it: exactly the items on which the parser raises
\* (a null ItemInfo) are left out; every other item, one without a title or
\* without an offer price included, is kept in batch order at the rank of
\* its position, an item without a title under the name "Unknown".
C20_RaisingItemLeftOut ==
  res.op = "_parse_items_to_rankings"
    => /\ \A i \in 1..Len(res.items) : i \in ParsedRanks <=> ~ParseRaises(res.items[i])
       /\ Len(res.val) = Cardinality(ParsedRanks)
       /\ \A k \in 1..Len(res.val) :
            /\ k > 1 => res.val[k - 1].rank < res.val[k].rank
            /\ res.val[k].product_name
                 = (IF res.items[res.val[k].rank].Title = <<>> THEN "Unknown"
                    ELSE res.items[res.val[k].rank].Title[1])

\* a batch of three whose second item has a null ItemInfo and whose third
\* item has no offer price: the rows of rank 1 and 3 are returned
C20_Witness ==
  /\ res.op = "_parse_items_to_rankings"
  /\ Len(res.items) = 3
  /\ "Price" \in DOMAIN res.items[1]
  /\ ParseRaises(res.items[2])
  /\ ~ParseRaises(res.items[3])
  /\ "Price" \notin DOMAIN res.items[3]
  /\ ParsedRanks = {1, 3}

\* the text holds a JSON value, bare or inside a Markdown fence (with or
\* without the word json after the opening fence, anything after the closing one)
HoldsJson(text) ==
  \E v \in {"{}", "[]"} :
    \/ text = <<v>>
    \/ \E head \in {<<Fence, v>>, <<Fence, "json", v>>} :
         /\ Len(text) >= Len(head)
         /\ SubSeq(text, 1, Len(head)) = head
         /\ Len(text) > Len(head) => text[Len(head) + 1] = Fence

\* C21: when the language-model call fails, or its text is not valid JSON,
\* analyze returns the fixed fallback payload with the keys performanceCards,
\* marketingCards, performanceChart, categoryTrend and lastUpdated; in no
\* case does an exception leave analyze.
C21_FallbackPayload ==
  res.op = "analyze"
    => /\ res.val.kind = "dict"
       /\ (res.response.kind # "text" \/ ~HoldsJson(res.response.text))
            => /\ DOMAIN res.val.items = {"performanceCards", "marketingCards",
                                          "performanceChart", "categoryTrend", "lastUpdated"}
               /\ res.val.items.lastUpdated = res.now
               /\ res.val.items.categoryTrend = <<>>
               /\ Len(res.val.items.performanceChart) = 4

\* the call itself failed and the fallback payload came back
C21_Witness ==
  /\ res.op = "analyze"
  /\ res.response.kind = "error"
  /\ res.val.kind = "dict"
  /\ "performanceCards" \in DOMAIN res.val.items

\* a fenced text that is not JSON gave the fallback payload
C21_WitnessFenced ==
  /\ res.op = "analyze"
  /\ res.response.kind = "text"
  /\ res.response.text = <<Fence, "json", "oops", Fence>>
  /\ "performanceCards" \in DOMAIN res.val.items

\* C22: a non-empty table returned by get_rankings(category, days) of
\* either provider has exactly the day columns day_1..day_days, whatever
\* calls came before.
C22_DayColumnsAsAsked ==
  res.op \in {"paapi_get_rankings", "get_rankings"}
    => LET df == IF res.op = "get_rankings" THEN res.val.df ELSE res.val
       IN DfLen(df) > 0
            => /\ df.day_cols = 1..res.days
               /\ \A i \in DOMAIN df.rows : DOMAIN df.rows[i].day = 1..res.days

\* C23: MockRankingProvider.get_rankings reuses cached data: a call with a
\* category and days for which an earlier call returned a table returns that
\* same table, whatever calls with other categories or days came in between.
C23_CachedTableReused ==
  (res.op = "get_rankings" /\ res.cached # <<>>) => res.val.df = res.cached[1]

\* rows of a table dated today
TodayRows(t) == {r \in DOMAIN t : r.ranking_date = Today}

\* C24: ensure_today_data collects and stores today's rankings only when the
\* store holds no row dated today and returns True exactly then; when a row
\* dated today exists it returns False and leaves the store unchanged.
C24_CollectsOnlyWithoutTodayRows ==
  res.op = "ensure_today_data"
    => /\ res.val = (TodayRows(res.before) = {})
       /\ TodayRows(res.before) # {} => table = res.before
       /\ TodayRows(res.before) = {}
            => /\ \A c \in SeqRange(CATEGORY_NODE_IDS) :
                    IF c \in DOMAIN res.today_rankings
                      THEN StoredFor(table, Today, c) = RowsGiven(Today, c, res.today_rankings[c])
                      ELSE StoredFor(table, Today, c) = EmptyBag
               /\ \A r \in DOMAIN res.before : r \in DOMAIN table /\ table[r] = res.before[r]

\* a call on a store with rows of the day before only collected two categories
C24_Witness ==
  /\ res.op = "ensure_today_data"
  /\ res.before # EmptyBag
  /\ res.val = TRUE
  /\ Cardinality({r.category : r \in TodayRows(table)}) = 2

\* a call on a store that holds rows of today returned False
C24_WitnessSkipped ==
  /\ res.op = "ensure_today_data"
  /\ TodayRows(res.before) # {}
  /\ res.val = FALSE
  /\ DOMAIN res.today_rankings # {}

\* C29: after ensure_today_data returns, every category for which the
\* provider supplies a non-empty ranking for today has rows stored for
\* today, also when an earlier collection stored today's rows for only some
\* of the categories.
C29_EveryCategoryStored ==
  res.op = "ensure_today_data"
    => \A c \in SeqRange(CATEGORY_NODE_IDS) :
         c \in DOMAIN res.today_rankings => \E r \in TodayRows(table) : r.category = c

\* the categories the summary tool reported on
ReportedCategories ==
  IF "parts" \in DOMAIN res.val THEN {res.val.parts[i].category : i \in DOMAIN res.val.parts}
  ELSE {}

\* C25: the get_laneige_summary tool called with category 'all' reports the
\* summary of every category that has LANEIGE data (lip_care, skincare,
\* lip_makeup, face_powder), not of a fixed subset.
C25_SummaryOfEveryCategory ==
  (res.op = "tool_get_laneige_summary" /\ res.category = AllCategory)
    => \A c \in SeqRange(CATEGORY_NODE_IDS) :
         get_laneige_summary(table, c, DefaultDays) # <<>> => c \in ReportedCategories

\* C26: in the table of the live provider's get_rankings(category, days)
\* every product row holds, in each of the columns day_1..day_days, the same
\* value: the current rank of the single fetched snapshot.
C26_SnapshotInEveryDayColumn ==
  res.op = "paapi_get_rankings"
    => \A i \in DOMAIN res.val.rows :
         \A d \in 1..res.days :
           /\ d \in DOMAIN res.val.rows[i].day
           /\ res.val.rows[i].day[d] = res.val.rows[i].rank

\* the raw ranks drawn for product i of the generation recorded in res, by day
RawOfProduct(i) ==
  [d \in 1..res.days |->
     IF res.op = "generate_ranking_history" THEN res.raw[d][i] ELSE res.raw[i][d]]

\* C27: within one generation call each product is given a single scenario
\* that is used for every day of the window; this holds for the non-focus
\* products of MockRankingEngine.generate_ranking_history as well as for the
\* provider's _generate_category_rankings.
C27_OneScenarioPerProduct ==
  res.op \in {"generate_ranking_history", "_generate_category_rankings"}
    => \A i \in 1..Len(category_products(res.category)) :
         \E s \in ScenariosOf(category_products(res.category)[i]) :
           \A d \in 1..res.days : RawOfProduct(i)[d] \in apply_scenario(s, d - 1, res.days)

\* the rows of a table outside one (date, category)
RowsOutside(t, ranking_date, category) ==
  FilterBag(t, LAMBDA r : r.ranking_date # ranking_date \/ r.category # category)

\* C28: save_daily_rankings leaves every stored row of another date or of
\* another category unchanged.
C28_OtherRowsUntouched ==
  res.op = "save_daily_rankings"
    => RowsOutside(table, res.ranking_date, res.category)
         = RowsOutside(res.before, res.ranking_date, res.category)

\* a save replaced the rows of its pair while the table held rows of the
\* other category for the same date
C28_Witness ==
  /\ res.op = "save_daily_rankings"
  /\ res.previous.saved
  /\ res.previous.rankings_df # res.rankings_df
  /\ \E r \in DOMAIN res.before :
       r.ranking_date = res.ranking_date /\ r.category # res.category
  /\ RowsOutside(table, res.ranking_date, res.category) # EmptyBag

\* C30: get_product_history returns rankings and dates of equal length with
\* strictly increasing dates (at most one rank per day), including when the
\* same product name has rows under more than one category on the same date.
C30_OneRankPerDay ==
  (res.op = "get_product_history" /\ res.val # None)
    => /\ Len(res.val.rankings) = Len(res.val.dates)
       /\ \A i \in 1..(Len(res.val.dates) - 1) : res.val.dates[i] < res.val.dates[i + 1]

====
